---------------------------- MODULE Spec2Model ----------------------------
(***************************************************************************)
(* The service-unit supervision state machine of sysmaster                 *)
(* (components/service/src/service.rs): one ServiceUnit, the child-watch   *)
(* table of its unit manager and the child processes it has spawned.       *)
(*                                                                         *)
(* Every handler of the unit (start, stop, reload, sigchld_event) runs to  *)
(* completion inside one event-loop dispatch, so each is one action.  The  *)
(* handlers are written as operators over a record u that holds the        *)
(* fields of the ServiceUnit together with the part of the environment     *)
(* they touch (watch table, live processes, signals sent).  u.oks is the   *)
(* list of outcomes (TRUE = Ok(pid), FALSE = Err) of the calls of          *)
(* start_service the handler makes, in order.                              *)
(***************************************************************************)
EXTENDS Integers, Sequences, FiniteSets, TLC

\* ------------------------------------------------------------------ bounds
\* Process ids are drawn from 1..MaxPid; a spawn fails when none is free.
MaxPid == 2
\* A stage's command list is empty or holds MaxCmds commands.
MaxCmds == 2
\* Exit codes run from 0 to MaxCode in the claims about the exit classifier.
MaxCode == 2

\* ------------------------------------------------------- program constants
\* Option<Pid>::None
NoPid == 0

\* ServiceCommand: the seven stages of exec_commands.
Stages ==
    {"ServiceCondition", "ServiceStartPre", "ServiceStart", "ServiceStartPost",
     "ServiceReload", "ServiceStop", "ServiceStopPost"}

\* Option<Rc<RefCell<CommandLine>>>::None
NoCmd == [stage |-> "None", idx |-> 0]

\* The idx-th command of a stage's list (1-based).
Cmd(stage, idx) == [stage |-> stage, idx |-> idx]

\* ServiceResult values the code produces.
Results == {"ServiceSuccess", "ServiceFailureResources", "ServiceFailureSignal"}

\* ServiceState values.
States ==
    {"ServiceStateMax", "ServiceDead", "ServiceCondition", "ServiceStartPre",
     "ServiceStart", "ServiceStartPost", "ServiceRuning", "ServiceExited",
     "ServiceReload", "ServiceStop", "ServiceStopWatchdog", "ServiceStopSigterm",
     "ServiceStopSigkill", "ServiceStopPost", "ServiceFinalWatchdog",
     "ServiceFinalSigterm", "ServiceFinalSigkill", "ServiceFailed"}

\* (exit code, signal) pairs the child registry hands to sigchld_event:
\* a clean exit, an exit with a non-zero code, a death by signal.
ExitEvents == {<<0, "SIGCHLD">>, <<1, "SIGCHLD">>, <<1, "SIGTERM">>}

VARIABLES
    state,            \* ServiceUnit.state
    result,           \* ServiceUnit.result
    main_pid,         \* ServiceUnit.main_pid
    control_pid,      \* ServiceUnit.control_pid
    main_command,     \* ServiceUnit.main_command (cursor)
    control_command,  \* ServiceUnit.control_command (cursor)
    forbid_restart,   \* ServiceUnit.forbid_restart
    exec_commands,    \* ServiceUnit.exec_commands: stage -> length of its list
    watch,            \* the unit manager's child-watch table (pids of this unit)
    live,             \* child processes spawned by the unit that have not exited
    panicked,         \* a handler reached todo!(): the manager has aborted
    signalled,        \* history: live children that were sent a stop signal
    cancelled,        \* history: a Stop interrupted the start path of this activation
    phase,            \* history: progress of a Start-then-Stop scenario
    sock,             \* SocketSpawn::start_socket in progress, and its manager
    cmds,             \* Commands::dispatch in progress, journal frame, listener
    um,               \* UnitManager::start_unit/stop_unit in progress, job table
    events,           \* the event loop's heap of pending sources
    rt,               \* init's RunTime, its children and its pending signals
    rules,            \* devmaster's Rules (users cache) and the user database
    tok,              \* the last RuleToken::parse_token call and its result
    subs,             \* UnitStatesSub::insert_states in progress, and its calls
    wd                \* ServiceUnit's watchdog fields and the watchdog timer source

\* The service unit and its environment.
unit_vars ==
    <<state, result, main_pid, control_pid, main_command, control_command,
      forbid_restart, exec_commands, watch, live, panicked, signalled,
      cancelled, phase>>

\* The other components, each idle while the service unit is exercised.
others == <<sock, cmds, um, events, rt, rules, tok, subs, wd>>

vars == <<unit_vars, others>>

\* BEGIN frames
\* What a step of one component leaves alone: the unit and the rest.
but_sock == <<unit_vars, cmds, um, events, rt, rules, tok, subs, wd>>

but_cmds == <<unit_vars, sock, um, events, rt, rules, tok, subs, wd>>

but_um == <<unit_vars, sock, cmds, events, rt, rules, tok, subs, wd>>

but_events == <<unit_vars, sock, cmds, um, rt, rules, tok, subs, wd>>

but_rt == <<unit_vars, sock, cmds, um, events, rules, tok, subs, wd>>

but_rules == <<unit_vars, sock, cmds, um, events, rt, tok, subs, wd>>

but_tok == <<unit_vars, sock, cmds, um, events, rt, rules, subs, wd>>

but_subs == <<unit_vars, sock, cmds, um, events, rt, rules, tok, wd>>

but_wd == <<unit_vars, sock, cmds, um, events, rt, rules, tok, subs>>
\* END frames

\* start_socket not called yet: no child spawned, none watched.
SockIdle ==
    [pc |-> "idle", owner |-> FALSE, prep |-> FALSE, exec |-> FALSE,
     pid |-> 0, ret |-> "none", procs |-> {}, watch |-> {},
     procs0 |-> {}, watch0 |-> {}]

\* Commands::new: bound listener, nothing journalled, no connection waiting.
CmdsIdle ==
    [pc |-> "idle", frame |-> "none", incoming |-> <<>>, cur |-> "none"]

\* UnitManager::new: no job in the job manager, no call in progress.
UmIdle ==
    [pc |-> "idle", name |-> "none", kind |-> "none", loads |-> FALSE,
     accepts |-> FALSE, ret |-> "none", submitted |-> <<>>,
     jobs |-> {}, jobs0 |-> {}]

\* Events::new: no source pending, none inserted so far.
EventsIdle ==
    [pending |-> <<>>, inserted |-> 0, last |-> 0]

\* RunTime::new of init has succeeded: state Reexec, the first sysmaster
\* forked and recorded, no signal pending. last names what the latest step
\* ran, sent the signals that step sent with libc::kill, in order.
RunTimeNew ==
    [state |-> "Reexec", sysmaster_pid |-> 1, need_reexec |-> FALSE,
     switching |-> FALSE, procs |-> {1}, zombies |-> {}, sigs |-> {},
     crashed |-> FALSE, down |-> FALSE, last |-> "new", sent |-> <<>>]

\* Rules::new: an empty users cache; nothing resolved yet. passwd is the
\* system's user database, lookups the User::from_name calls made so far.
RulesNew ==
    [users |-> {}, passwd |-> {"root"}, name |-> "none", ret |-> "none",
     lookups |-> <<>>]

\* No rule token parsed yet.
TokIdle ==
    [key |-> "none", attr |-> "None", op |-> "none", value |-> <<>>,
     ret |-> [ok |-> FALSE]]

\* UnitStatesSub::new: no state change delivered yet. trace is the order in
\* which the job manager (try_finish) and the dependents (their names) were
\* called during the delivery in progress.
SubsIdle ==
    [pc |-> "idle", present |-> FALSE, ok |-> FALSE, deps |-> {},
     todo |-> {}, trace |-> <<>>]

\* Watchdog timeouts are 0..MaxUsec microseconds, or unset.
MaxUsec == 2

\* u64::MAX, the value of an unset timeout.
U64Max == MaxUsec + 1

\* The watchdog fields of ServiceUnit::new and the watchdog timer event
\* source, not registered and not enabled.
WatchdogNew ==
    [pc |-> "idle", watchdog_override_enable |-> FALSE,
     watchdog_override_usec |-> 0, watchdog_original_usec |-> U64Max,
     registered |-> FALSE, enabled |-> FALSE]

OthersIdle ==
    /\ sock = SockIdle
    /\ cmds = CmdsIdle
    /\ um = UmIdle
    /\ events = EventsIdle
    /\ rt = RunTimeNew
    /\ rules = RulesNew
    /\ tok = TokIdle
    /\ subs = SubsIdle
    /\ wd = WatchdogNew

\* The unit and its environment as one record. Three fields live for the
\* length of one handler only: oks, the outcomes of the spawns it will
\* attempt; sent, the signals it has delivered, in order; failed, whether
\* one of its spawns returned Err.
Cur ==
    [state |-> state, result |-> result, main_pid |-> main_pid,
     control_pid |-> control_pid, main_command |-> main_command,
     control_command |-> control_command, forbid_restart |-> forbid_restart,
     watch |-> watch, live |-> live, signalled |-> signalled,
     panicked |-> panicked, oks |-> <<>>, sent |-> <<>>, failed |-> FALSE]

WithOks(u, oks) == [u EXCEPT !.oks = oks]

\* cmd.next.is_some()
HasNext(cmd) == cmd # NoCmd /\ cmd.idx < exec_commands[cmd.stage]

\* cmd.next
NextCmd(cmd) == Cmd(cmd.stage, cmd.idx + 1)

\* ----------------------------------------------------------- collaborators
Min(S) == CHOOSE x \in S : \A y \in S : x <= y

FreePids(u) == (1..MaxPid) \ (u.live \cup u.watch \cup {u.main_pid, u.control_pid})

\* The spawner: forks the command, registers the pid in the child-watch
\* table as belonging to the unit, and returns Ok(pid); or returns Err.
start_service(u) ==
    IF FreePids(u) = {}
    THEN [ok |-> FALSE, pid |-> NoPid, u |-> [u EXCEPT !.failed = TRUE]]
    ELSE IF Head(u.oks)
    THEN LET pid == Min(FreePids(u))
         IN  [ok |-> TRUE, pid |-> pid,
              u |-> [u EXCEPT !.oks = Tail(@),
                              !.live = @ \cup {pid},
                              !.watch = @ \cup {pid}]]
    ELSE [ok |-> FALSE, pid |-> NoPid,
          u |-> [u EXCEPT !.oks = Tail(@), !.failed = TRUE]]

\* UnitManager::child_unwatch_pid
child_unwatch_pid(u, pid) == [u EXCEPT !.watch = @ \ {pid}]

\* ServiceState::to_kill_operation
to_kill_operation(st) ==
    CASE st \in {"ServiceStopWatchdog", "ServiceFinalWatchdog"} -> "KillWatchdog"
      [] st \in {"ServiceStopSigterm", "ServiceFinalSigterm"} -> "KillTerminate"
      [] st \in {"ServiceStopSigkill", "ServiceFinalSigkill"} -> "KillKill"
      [] OTHER -> "KillInvalid"

\* KillOperation::to_signal
to_signal(operation) ==
    CASE operation \in {"KillTerminate", "KillTerminateAndLog", "KillRestart"} -> "SIGTERM"
      [] operation = "KillKill" -> "SIGKILL"
      [] operation = "KillWatchdog" -> "SIGABRT"
      [] OTHER -> "SIGTERM"

\* nix::sys::signal::kill(pid, sig): reaches the process when it still exists.
kill(u, pid, sig) ==
    IF pid \in u.live
    THEN [u EXCEPT !.signalled = @ \cup {pid}, !.sent = Append(@, <<pid, sig>>)]
    ELSE u

\* ------------------------------------------------------------ ServiceUnit
unwatch_control_pid(u) ==
    IF u.control_pid # NoPid THEN child_unwatch_pid(u, u.control_pid) ELSE u

unwatch_main_pid(u) ==
    IF u.main_pid # NoPid THEN child_unwatch_pid(u, u.main_pid) ELSE u

set_state(u, st) == [u EXCEPT !.state = st]

\* Mutant of latch: the result is assigned without the guard.
latch_overwrite(u, res) == [u EXCEPT !.result = res]

\* if self.result == ServiceSuccess { self.result = res }
latch(u, res) ==
    IF u.result = "ServiceSuccess" THEN [u EXCEPT !.result = res] ELSE u

\* Mutant of run_dead: the final state does not look at the result.
run_dead_always_dead(u, res) == set_state(latch(u, res), "ServiceDead")

run_dead(u, res) ==
    LET u1 == latch(u, res)
    IN  set_state(u1, IF u1.result = "ServiceSuccess"
                      THEN "ServiceDead" ELSE "ServiceFailed")

\* One `match kill(pid, sig)` of kill_service: on Ok a SIGCONT follows unless
\* the signal was SIGCONT or SIGKILL; on Err only a warning is logged.
kill_and_cont(u, pid, sig) ==
    IF pid \in u.live /\ sig \notin {"SIGCONT", "SIGKILL"}
    THEN kill(kill(u, pid, sig), pid, "SIGCONT")
    ELSE kill(u, pid, sig)

\* Mutant of kill_service: only the main process is signalled.
kill_service_main_only(u, operation) ==
    IF u.main_pid # NoPid
    THEN kill_and_cont(u, u.main_pid, to_signal(operation))
    ELSE u

kill_service(u, operation) ==
    LET sig == to_signal(operation)
        u1 == IF u.main_pid # NoPid THEN kill_and_cont(u, u.main_pid, sig) ELSE u
    IN  IF u1.control_pid # NoPid
        THEN kill_and_cont(u1, u1.control_pid, sig)
        ELSE u1

RECURSIVE send_signal(_, _, _)
RECURSIVE run_stop_post(_, _)

\* Mutant of send_signal: the signal state is stored and the handler
\* returns, to go on when the signalled children have exited.
send_signal_waits(u, st, res) ==
    set_state(kill_service(u, to_kill_operation(st)), st)

send_signal(u, st, res) ==
    LET u1 == kill_service(u, to_kill_operation(st))
    IN  IF st \in {"ServiceStopWatchdog", "ServiceStopSigterm", "ServiceStopSigkill"}
        THEN run_stop_post(u1, "ServiceSuccess")
        ELSE IF st \in {"ServiceFinalWatchdog", "ServiceFinalSigterm"}
        THEN send_signal(u1, "ServiceFinalSigkill", "ServiceSuccess")
        ELSE run_dead(u1, "ServiceSuccess")

run_stop_post(u, res) ==
    LET u1 == latch(u, res)
    IN  IF exec_commands["ServiceStopPost"] > 0
        THEN LET u2 == [u1 EXCEPT !.control_command = Cmd("ServiceStopPost", 1)]
                 r  == start_service(u2)
                 u3 == IF r.ok
                       THEN [r.u EXCEPT !.control_pid = r.pid]
                       ELSE send_signal(r.u, "ServiceFinalSigterm",
                                        "ServiceFailureResources")
             IN  set_state(u3, "ServiceStopPost")
        ELSE send_signal(u1, "ServiceFinalSigterm", "ServiceSuccess")

run_stop(u, res) ==
    LET u1 == latch(u, res)
    IN  IF exec_commands["ServiceStop"] > 0
        THEN LET u2 == [u1 EXCEPT !.control_command = Cmd("ServiceStop", 1)]
                 r  == start_service(u2)
                 u3 == IF r.ok THEN [r.u EXCEPT !.control_pid = r.pid] ELSE r.u
             IN  set_state(u3, "ServiceStop")
        ELSE send_signal(u1, "ServiceStopSigterm", "ServiceSuccess")

service_alive(u) == TRUE

\* Mutant of enter_running: the result is not looked at.
enter_running_unchecked(u, sr) ==
    LET u1 == latch(unwatch_control_pid(u), sr)
    IN  IF service_alive(u1)
        THEN set_state(u1, "ServiceRuning")
        ELSE run_stop(u1, sr)

enter_running(u, sr) ==
    LET u1 == latch(unwatch_control_pid(u), sr)
    IN  IF u1.result # "ServiceSuccess"
        THEN send_signal(u1, "ServiceStopSigterm", sr)
        ELSE IF service_alive(u1)
        THEN set_state(u1, "ServiceRuning")
        ELSE run_stop(u1, sr)

run_start_post(u) ==
    LET u1 == unwatch_control_pid(u)
    IN  IF exec_commands["ServiceStartPost"] > 0
        THEN LET u2 == [u1 EXCEPT !.control_command = Cmd("ServiceStartPost", 1)]
                 r  == start_service(u2)
                 u3 == IF r.ok THEN [r.u EXCEPT !.control_pid = r.pid] ELSE r.u
             IN  set_state(u3, "ServiceStartPost")
        ELSE enter_running(u1, "ServiceSuccess")

run_start(u) ==
    LET u1 == unwatch_main_pid(unwatch_control_pid(
                  [u EXCEPT !.control_command = NoCmd]))
    IN  IF exec_commands["ServiceStart"] > 0
        THEN LET u2 == [u1 EXCEPT !.main_command = Cmd("ServiceStart", 1)]
                 r  == start_service(u2)
                 u3 == IF r.ok
                       THEN [r.u EXCEPT !.main_pid = r.pid]
                       ELSE send_signal(r.u, "ServiceStopSigterm",
                                        "ServiceFailureResources")
             IN  set_state(u3, "ServiceStart")
        ELSE run_start_post(u1)

\* Mutant of run_prestart: the pre-start state is entered although the
\* stage has no command to spawn.
run_prestart_stall(u) ==
    LET u1 == unwatch_control_pid(u)
    IN  IF exec_commands["ServiceStartPre"] > 0
        THEN LET u2 == [u1 EXCEPT !.control_command = Cmd("ServiceStartPre", 1)]
                 r  == start_service(u2)
                 u3 == IF r.ok
                       THEN [r.u EXCEPT !.control_pid = r.pid]
                       ELSE run_dead(r.u, "ServiceFailureResources")
             IN  set_state(u3, "ServiceStartPre")
        ELSE set_state(u1, "ServiceStartPre")

run_prestart(u) ==
    LET u1 == unwatch_control_pid(u)
    IN  IF exec_commands["ServiceStartPre"] > 0
        THEN LET u2 == [u1 EXCEPT !.control_command = Cmd("ServiceStartPre", 1)]
                 r  == start_service(u2)
                 u3 == IF r.ok
                       THEN [r.u EXCEPT !.control_pid = r.pid]
                       ELSE run_dead(r.u, "ServiceFailureResources")
             IN  set_state(u3, "ServiceStartPre")
        ELSE run_start(u1)

start(u) ==
    IF exec_commands["ServiceCondition"] > 0
    THEN LET u2 == [u EXCEPT !.control_command = Cmd("ServiceCondition", 1)]
             r  == start_service(u2)
             u3 == IF r.ok
                   THEN [r.u EXCEPT !.control_pid = r.pid]
                   ELSE run_dead(r.u, "ServiceFailureResources")
         IN  set_state(u3, "ServiceCondition")
    ELSE run_prestart(u)

run_reload(u) ==
    LET u1 == unwatch_control_pid([u EXCEPT !.control_command = NoCmd])
    IN  IF exec_commands["ServiceReload"] > 0
        THEN LET u2 == [u1 EXCEPT !.control_command = Cmd("ServiceReload", 1)]
                 r  == start_service(u2)
                 u3 == IF r.ok
                       THEN [r.u EXCEPT !.control_pid = r.pid]
                       ELSE enter_running(r.u, "ServiceSuccess")
             IN  set_state(u3, "ServiceReload")
        ELSE enter_running(u1, "ServiceSuccess")

run_next_control(u) ==
    IF u.control_command # NoCmd /\ HasNext(u.control_command)
    THEN LET u1 == [u EXCEPT !.control_command = NextCmd(@)]
             r  == start_service(u1)
         IN  IF r.ok THEN [r.u EXCEPT !.control_pid = r.pid] ELSE r.u
    ELSE u

run_next_main(u) ==
    IF u.main_command # NoCmd /\ HasNext(u.main_command)
    THEN LET u1 == [u EXCEPT !.main_command = NextCmd(@)]
             r  == start_service(u1)
         IN  IF r.ok THEN [r.u EXCEPT !.main_pid = r.pid] ELSE r.u
    ELSE u

\* todo!(): the handler panics and the manager aborts.
todo(u) == [u EXCEPT !.panicked = TRUE]

\* Mutant of classify: a non-zero exit code is a failure whatever the signal.
classify_nonzero_fails(code, status) ==
    IF code = 0 THEN "ServiceSuccess" ELSE "ServiceFailureSignal"

\* The exit classifier at the head of sigchld_event.
classify(code, status) ==
    IF code = 0 THEN "ServiceSuccess"
    ELSE IF status # "SIGCHLD" THEN "ServiceFailureSignal"
    ELSE "ServiceSuccess"

\* sigchld_event, the branch for the main process.
sigchld_main(u, res) ==
    LET u1 == latch([u EXCEPT !.main_pid = NoPid], res)
    IN  IF u1.main_command # NoCmd /\ HasNext(u1.main_command)
           /\ res = "ServiceSuccess"
        THEN run_next_main(u1)
        ELSE LET u2 == [u1 EXCEPT !.main_command = NoCmd]
             IN  CASE u2.state = "ServiceDead" -> todo(u2)
                   [] u2.state = "ServiceStart" ->
                        send_signal(u2, "ServiceStopSigterm", res)
                   [] u2.state \in {"ServiceStartPost", "ServiceReload"} ->
                        run_stop(u2, res)
                   [] u2.state = "ServiceRuning" -> enter_running(u2, res)
                   [] u2.state = "ServiceStop" -> u2
                   [] u2.state \in {"ServiceStopWatchdog", "ServiceStopSigkill",
                                    "ServiceStopSigterm"} ->
                        run_stop_post(u2, res)
                   [] u2.state \in {"ServiceFinalSigterm", "ServiceFinalSigkill"} ->
                        run_dead(u2, res)
                   [] OTHER -> u2

\* sigchld_event, the branch for the control process.
sigchld_control(u, res) ==
    LET u1 == [u EXCEPT !.control_pid = NoPid]
    IN  IF u1.control_command # NoCmd /\ HasNext(u1.control_command)
           /\ res = "ServiceSuccess"
        THEN run_next_control(u1)
        ELSE LET u2 == [u1 EXCEPT !.control_command = NoCmd]
             IN  CASE u2.state = "ServiceCondition" ->
                        IF res = "ServiceSuccess"
                        THEN run_prestart(u2)
                        ELSE send_signal(u2, "ServiceStopSigterm", res)
                   [] u2.state = "ServiceStartPre" ->
                        IF res = "ServiceSuccess"
                        THEN run_start(u2)
                        ELSE send_signal(u2, "ServiceStopSigterm", res)
                   [] u2.state = "ServiceStart" ->
                        IF res = "ServiceSuccess" THEN run_start_post(u2) ELSE u2
                   [] u2.state = "ServiceStartPost" ->
                        enter_running(u2, "ServiceSuccess")
                   [] u2.state = "ServiceRuning" -> todo(u2)
                   [] u2.state = "ServiceReload" -> enter_running(u2, res)
                   [] u2.state = "ServiceStop" ->
                        send_signal(u2, "ServiceStopSigterm", res)
                   [] u2.state \in {"ServiceStopSigterm", "ServiceStopSigkill",
                                    "ServiceStopWatchdog"} ->
                        run_stop_post(u2, res)
                   [] u2.state = "ServiceStopPost" ->
                        send_signal(u2, "ServiceFinalSigterm", res)
                   [] u2.state \in {"ServiceFinalSigterm", "ServiceFinalSigkill"} ->
                        run_dead(u2, res)
                   [] OTHER -> u2

sigchld_event(u, pid, code, status) ==
    LET res == classify(code, status)
    IN  IF u.main_pid = pid THEN sigchld_main(u, res)
        ELSE IF u.control_pid = pid THEN sigchld_control(u, res)
        ELSE u

StopStates ==
    {"ServiceStop", "ServiceStopSigterm", "ServiceStopSigkill", "ServiceStopPost"}

StartingStates ==
    {"ServiceCondition", "ServiceStartPre", "ServiceStart", "ServiceStartPost",
     "ServiceReload", "ServiceStopWatchdog"}

\* Mutant of stop: an already stopping unit returns before the latch is set.
stop_returns_first(u) ==
    IF u.state \in StopStates THEN u
    ELSE LET u1 == [u EXCEPT !.forbid_restart = TRUE]
         IN  IF u1.state \in StartingStates
             THEN send_signal(u1, "ServiceStopSigterm", "ServiceSuccess")
             ELSE run_stop(u1, "ServiceSuccess")

\* UnitObj::stop for ServiceUnit
stop(u) ==
    LET u1 == [u EXCEPT !.forbid_restart = TRUE]
    IN  IF u1.state \in StopStates THEN u1
        ELSE IF u1.state \in StartingStates
        THEN send_signal(u1, "ServiceStopSigterm", "ServiceSuccess")
        ELSE run_stop(u1, "ServiceSuccess")

\* UnitObj::reload for ServiceUnit
reload(u) == run_reload(u)

\* The child registry: the exited child is reaped; when its pid is watched
\* the watch is taken out of the table and the exit is dispatched to the unit.
child_dispatch_sigchld(u, pid, code, status) ==
    LET u0 == [u EXCEPT !.live = @ \ {pid}, !.signalled = @ \ {pid}]
    IN  IF pid \in u0.watch
        THEN sigchld_event(child_unwatch_pid(u0, pid), pid, code, status)
        ELSE u0

\* ----------------------------------------------------------------- actions
\* The outcomes of the calls of start_service one handler makes: a handler
\* spawns again only after a failed spawn (the stop-post command, on the
\* stop path a failed spawn sends it down), and at most twice.
Outcomes == {<<TRUE>>, <<FALSE, TRUE>>, <<FALSE, FALSE>>}

\* The history variables; Spec leaves them at their initial values.
hist == <<signalled, cancelled, phase>>

\* Process ids are opaque: the handlers only compare them for equality.
\* States are kept up to a renaming of the pids (a symmetry reduction): after
\* each handler the pids in use are renumbered from 1, the recorded main pid
\* first, then the recorded control pid, then the unrecorded children.
PidClass(u, p) ==
    IF p = u.main_pid THEN 0
    ELSE IF p = u.control_pid THEN 1
    ELSE IF p \in u.watch THEN (IF p \in u.signalled THEN 2 ELSE 3)
    ELSE (IF p \in u.signalled THEN 4 ELSE 5)

PidsInUse(u) == (u.live \cup u.watch \cup {u.main_pid, u.control_pid}) \ {NoPid}

Renamed(u, p) ==
    IF p = NoPid THEN NoPid
    ELSE 1 + Cardinality({q \in PidsInUse(u) :
                 \/ PidClass(u, q) < PidClass(u, p)
                 \/ PidClass(u, q) = PidClass(u, p) /\ q < p})

\* The variables take the fields of the record a handler returns.
Apply(u) ==
    /\ state' = u.state
    /\ result' = u.result
    /\ main_pid' = Renamed(u, u.main_pid)
    /\ control_pid' = Renamed(u, u.control_pid)
    /\ main_command' = u.main_command
    /\ control_command' = u.control_command
    /\ forbid_restart' = u.forbid_restart
    /\ watch' = {Renamed(u, p) : p \in u.watch}
    /\ live' = {Renamed(u, p) : p \in u.live}
    /\ panicked' = u.panicked
    /\ UNCHANGED <<exec_commands, others>>

\* ServiceUnit::new, before the unit file is loaded.
UnitNew ==
    /\ state = "ServiceStateMax"
    /\ result = "ServiceSuccess"
    /\ main_pid = NoPid
    /\ control_pid = NoPid
    /\ main_command = NoCmd
    /\ control_command = NoCmd
    /\ forbid_restart = FALSE
    /\ exec_commands = [s \in Stages |-> 0]
    /\ watch = {}
    /\ live = {}
    /\ panicked = FALSE
    /\ signalled = {}
    /\ cancelled = FALSE
    /\ phase = "free"

Init ==
    /\ OthersIdle
    /\ state = "ServiceStateMax"
    /\ result = "ServiceSuccess"
    /\ main_pid = NoPid
    /\ control_pid = NoPid
    /\ main_command = NoCmd
    /\ control_command = NoCmd
    /\ forbid_restart = FALSE
    /\ exec_commands \in [Stages -> {0, MaxCmds}]
    /\ watch = {}
    /\ live = {}
    /\ panicked = FALSE
    /\ signalled = {}
    /\ cancelled = FALSE
    /\ phase = "free"

\* A Start intent: UnitObj::start.
Start ==
    /\ ~panicked
    /\ \E oks \in Outcomes : Apply(start(WithOks(Cur, oks)))
    /\ UNCHANGED hist

\* A Stop intent: UnitObj::stop.
Stop ==
    /\ ~panicked
    /\ \E oks \in Outcomes : Apply(stop(WithOks(Cur, oks)))
    /\ UNCHANGED hist

\* A Reload intent: UnitObj::reload.
Reload ==
    /\ ~panicked
    /\ \E oks \in Outcomes : Apply(reload(WithOks(Cur, oks)))
    /\ UNCHANGED hist

\* A child of the unit exits and the registry handles its SIGCHLD.
ChildExit ==
    /\ ~panicked
    /\ \E pid \in live, ev \in ExitEvents, oks \in Outcomes :
           Apply(child_dispatch_sigchld(WithOks(Cur, oks), pid, ev[1], ev[2]))
    /\ UNCHANGED hist

Next == Start \/ Stop \/ Reload \/ ChildExit

Spec == Init /\ [][Next]_vars

\* ------------------------------------------------------- orderly callers
\* Spec delivers every intent in every state, as the handlers accept them.
\* The specifications below deliver Start only to a unit that is not active
\* (never started, Dead or Failed), Stop only to a unit that is, and Reload
\* only to a Running unit, the states the job manager is meant to send them in.  Their behaviours are
\* behaviours of Spec.
CanStart == state \in {"ServiceStateMax", "ServiceDead", "ServiceFailed"}

CanReload == state = "ServiceRuning"

CanStop == state \notin {"ServiceStateMax", "ServiceDead", "ServiceFailed"}

StartO == CanStart /\ Start

ReloadO == CanReload /\ Reload

StopO == CanStop /\ Stop

NextOrderly == StartO \/ StopO \/ ReloadO \/ ChildExit

SpecOrderly == Init /\ [][NextOrderly]_vars

\* ------------------------------------------------ specifications with history
\* The same handlers under orderly callers, with the history variables kept
\* up to date.
Record(u, c, ph) ==
    /\ Apply(u)
    /\ signalled' = {Renamed(u, p) : p \in u.signalled}
    /\ cancelled' = c
    /\ phase' = ph

StartH ==
    /\ ~panicked
    /\ CanStart
    /\ \E oks \in Outcomes : Record(start(WithOks(Cur, oks)), FALSE, phase)

StopH ==
    /\ ~panicked
    /\ CanStop
    /\ \E oks \in Outcomes :
           Record(stop(WithOks(Cur, oks)),
                  cancelled \/ state \in StartingStates, phase)

ReloadH ==
    /\ ~panicked
    /\ CanReload
    /\ \E oks \in Outcomes : Record(reload(WithOks(Cur, oks)), FALSE, phase)

ChildExitH ==
    /\ ~panicked
    /\ \E pid \in live, ev \in ExitEvents, oks \in Outcomes :
           Record(child_dispatch_sigchld(WithOks(Cur, oks), pid, ev[1], ev[2]),
                  cancelled, phase)

NextH == StartH \/ StopH \/ ReloadH \/ ChildExitH

SpecHist == Init /\ [][NextH]_vars

\* A Start-then-Stop scenario on a unit that is Dead with no child left:
\* Start, then Stop, and the exits of the children, each child exiting
\* cleanly or dying from the stop signal it was sent.  No spawn is refused
\* during the scenario.
ScenStart ==
    /\ phase = "free"
    /\ ~panicked
    /\ state = "ServiceDead"
    /\ live = {} /\ watch = {}
    /\ main_pid = NoPid /\ control_pid = NoPid
    /\ Record(start(WithOks(Cur, <<TRUE>>)), FALSE, "started")

ScenStop ==
    /\ phase = "started"
    /\ ~panicked
    /\ Record(stop(WithOks(Cur, <<TRUE>>)), cancelled, "stopped")

ScenExit ==
    /\ phase \in {"started", "stopped"}
    /\ ~panicked
    /\ \E pid \in live, ev \in ExitEvents :
           /\ ev = <<0, "SIGCHLD">> \/ (pid \in signalled /\ ev = <<1, "SIGTERM">>)
           /\ Record(child_dispatch_sigchld(WithOks(Cur, <<TRUE>>), pid, ev[1], ev[2]),
                     cancelled, phase)

NextStartStop == (phase = "free" /\ NextH) \/ ScenStart \/ ScenStop \/ ScenExit

SpecStartStop == Init /\ [][NextStartStop]_vars

\* The children's exits are delivered (the registry drains SIGCHLD on every
\* loop iteration), and from some point on no further intent arrives.
SpecQuiet ==
    Init /\ [][NextOrderly]_vars /\ WF_vars(ChildExit) /\ <>[][ChildExit]_vars

\* ------------------------------------------------------------------ claims
Final == {"ServiceDead", "ServiceFailed"}

\* C1: once result is non-success, no step replaces it, neither with
\* success nor with another non-success value.
C1_ResultLatches == [][result # "ServiceSuccess" => result' = result]_vars

\* C1 witness: a failure latched at a main-process exit has survived the
\* run_dead(ServiceSuccess) that ended the activation.
C1_Witness == result = "ServiceFailureSignal" /\ state = "ServiceFailed"

\* The start-side stages, whose cursors a cancelled start path still holds.
StartSide ==
    {"ServiceCondition", "ServiceStartPre", "ServiceStart", "ServiceStartPost",
     "ServiceReload"}

\* A step advances a cursor within a start-side stage.
AdvancesStartCursor ==
    \/ main_command.stage \in StartSide /\ main_command' = NextCmd(main_command)
    \/ control_command.stage \in StartSide
       /\ control_command' = NextCmd(control_command)

\* C2: a Stop received in a starting state goes down the StopSigterm path
\* (post-stop, then Dead or Failed) in the same step, and from then on, until
\* the next Start or Reload intent, no step advances a cursor of the start
\* path that the Stop interrupted.
C2_StopCancelsStartPath ==
    [][ /\ (~cancelled /\ cancelled') => state' \in Final \cup {"ServiceStopPost"}
        /\ (cancelled /\ cancelled') => ~AdvancesStartCursor ]_vars

\* C3: in Dead and Failed both pids are None and no pid of the unit is left
\* in the child-watch table.
C3_DeadReleasesPids ==
    state \in Final => main_pid = NoPid /\ control_pid = NoPid /\ watch = {}

\* C4: outside Dead, Failed, Running and Exited (and the never-started
\* initial value) a child recorded in main_pid or control_pid is alive; the
\* code arms no timer, so the timer alternative of the claim is never true.
C4_ActiveStateHasChild ==
    (~panicked /\ state \notin Final \cup {"ServiceStateMax", "ServiceRuning",
                                            "ServiceExited"})
        => (main_pid \in live \/ control_pid \in live)

\* C5: no handler reaches todo!().
C5_NoPanic == ~panicked

\* C6: every live child of the unit is the one recorded in main_pid or
\* control_pid.
C6_LiveChildrenTracked == live \subseteq {main_pid, control_pid}

\* The fields C7 compares, and the processes alive (a spawn adds one).
Observed(u) ==
    <<u.state, u.result, u.main_pid, u.control_pid, u.main_command,
      u.control_command, u.live>>

\* C7: in every reachable state, a second Stop right after a Stop changes
\* neither state, result, pids nor cursors and spawns nothing.
C7_StopIdempotent ==
    ~panicked =>
        \A o1 \in Outcomes, o2 \in Outcomes :
            LET u1 == stop(WithOks(Cur, o1))
            IN  Observed(stop(WithOks(u1, o2))) = Observed(u1)

\* C8: once the Start-then-Stop scenario is over and every child has
\* exited, the unit is back in Dead and the manager has not aborted.
C8_StartStopReturnsToDead ==
    (phase = "stopped" /\ live = {}) => (state = "ServiceDead" /\ ~panicked)

\* The stage a state runs the commands of.
StageOf(st) ==
    CASE st = "ServiceCondition" -> "ServiceCondition"
      [] st = "ServiceStartPre" -> "ServiceStartPre"
      [] st = "ServiceStart" -> "ServiceStart"
      [] st = "ServiceStartPost" -> "ServiceStartPost"
      [] st = "ServiceReload" -> "ServiceReload"
      [] st = "ServiceStop" -> "ServiceStop"
      [] st = "ServiceStopPost" -> "ServiceStopPost"
      [] OTHER -> "None"

StartPath == <<"ServiceCondition", "ServiceStartPre", "ServiceStart", "ServiceStartPost">>

\* The state Start must leave the unit in: that of the first non-empty
\* stage of the start path, Running when there is none.
StartTarget ==
    IF \E i \in 1..4 : exec_commands[StartPath[i]] > 0
    THEN StartPath[Min({i \in 1..4 : exec_commands[StartPath[i]] > 0})]
    ELSE "ServiceRuning"

\* C9: the unit never sits in the state of a stage whose list is empty; a
\* Start leaves it in the state of the first non-empty stage of the start
\* path, and when that path is empty in Running (the stop path when an
\* earlier failure is latched); with all stages empty Start reaches Running.
C9_EmptyStagesSkipped ==
    /\ StageOf(state) # "None" => exec_commands[StageOf(state)] > 0
    /\ ~panicked =>
         \A oks \in Outcomes :
             LET u1 == start(WithOks(Cur, oks))
             IN  /\ StartTarget # "ServiceRuning" => u1.state = StartTarget
                 /\ (StartTarget = "ServiceRuning" /\ result = "ServiceSuccess")
                        => u1.state = "ServiceRuning"
                 /\ StartTarget = "ServiceRuning"
                        => u1.state \in Final \cup {"ServiceRuning", "ServiceStopPost"}
                 /\ (\A s \in Stages : exec_commands[s] = 0)
                        => u1.state = "ServiceRuning"

\* C9 witness: condition and pre-start are empty, start is not, and a Start
\* has put the unit in Start with the first start command running.
C9_Witness ==
    /\ exec_commands["ServiceCondition"] = 0
    /\ exec_commands["ServiceStartPre"] = 0
    /\ exec_commands["ServiceStart"] > 0
    /\ state = "ServiceStart"
    /\ main_command = Cmd("ServiceStart", 1)
    /\ main_pid \in live
    /\ control_pid = NoPid

\* C10: every state other than Dead and Failed is eventually followed by
\* Running, Dead or Failed, the children's exits being delivered.
C10_Progress ==
    [](state \notin Final \cup {"ServiceStateMax", "ServiceRuning"}
          => <>(state \in Final \cup {"ServiceRuning"}))

\* C11: while the manager runs, a unit in Dead has result success and a
\* unit in Failed has a result other than success.
C11_DeadIffSuccess ==
    ~panicked =>
        /\ state = "ServiceDead" => result = "ServiceSuccess"
        /\ state = "ServiceFailed" => result # "ServiceSuccess"

\* C11 witness: run_dead has ended an activation in Failed on a latched
\* resource failure.
C11_Witness ==
    state = "ServiceFailed" /\ result = "ServiceFailureResources" /\ ~panicked

\* C12: when the condition command running as control_pid exits with a
\* non-zero code in state Condition, the handler takes the StopSigterm path
\* (post-stop, or Failed at once) with a failure result, and spawns no
\* further command of the start path.
C12_ConditionFailureAbandonsStart ==
    (~panicked /\ state = "ServiceCondition" /\ control_pid \in watch) =>
        \A ev \in {e \in ExitEvents : e[1] # 0}, oks \in Outcomes :
            LET u1 == child_dispatch_sigchld(WithOks(Cur, oks), control_pid,
                                             ev[1], ev[2])
            IN  /\ u1.state \in {"ServiceStopPost", "ServiceFailed"}
                /\ u1.result # "ServiceSuccess"
                /\ u1.control_command.stage \notin StartSide
                /\ u1.main_command.stage \notin StartSide

\* The unit as each handler an orderly caller may run next would leave it,
\* before the pids are renamed.
Handled ==
    (IF CanStart THEN {start(WithOks(Cur, oks)) : oks \in Outcomes} ELSE {})
    \cup (IF CanStop THEN {stop(WithOks(Cur, oks)) : oks \in Outcomes} ELSE {})
    \cup (IF CanReload THEN {reload(WithOks(Cur, oks)) : oks \in Outcomes} ELSE {})
    \cup {child_dispatch_sigchld(WithOks(Cur, oks), pid, ev[1], ev[2]) :
              pid \in live, ev \in ExitEvents, oks \in Outcomes}

\* C13: a handler in which start_service returned Err leaves a failure
\* result latched and the unit on the stop path (post-stop, or Failed).
C13_SpawnFailureFails ==
    ~panicked =>
        \A u1 \in Handled :
            (u1.failed /\ ~u1.panicked) =>
                /\ u1.result # "ServiceSuccess"
                /\ u1.state \in {"ServiceStopPost", "ServiceFailed"}

\* The (exit code, signal) pairs the classifier is checked on.
ExitCodes == 0..MaxCode

Signals == {"SIGCHLD", "SIGTERM", "SIGKILL", "SIGABRT", "SIGCONT"}

\* C14: exit code 0 classifies as success whatever the signal, a non-zero
\* code with a signal other than SIGCHLD as failure-signal, a non-zero code
\* with SIGCHLD as success; and that class is what the exit of the main
\* process latches into a result that was success.
C14_ExitClassifier ==
    \A code \in ExitCodes, sig \in Signals :
        /\ code = 0 => classify(code, sig) = "ServiceSuccess"
        /\ (code # 0 /\ sig # "SIGCHLD") => classify(code, sig) = "ServiceFailureSignal"
        /\ (code # 0 /\ sig = "SIGCHLD") => classify(code, sig) = "ServiceSuccess"
        /\ (~panicked /\ main_pid \in watch /\ result = "ServiceSuccess") =>
               sigchld_event(WithOks(Cur, <<TRUE>>), main_pid, code, sig).result
                   = (IF code # 0 /\ sig # "SIGCHLD"
                      THEN "ServiceFailureSignal" ELSE "ServiceSuccess")

\* C14 witness: the start command runs as the watched main process and no
\* failure is latched yet, so its exit class decides the result.
C14_Witness ==
    /\ ~panicked
    /\ state = "ServiceStart"
    /\ main_pid \in watch
    /\ result = "ServiceSuccess"
    /\ main_command.stage = "ServiceStart"

KillOperations ==
    {"KillTerminate", "KillTerminateAndLog", "KillRestart", "KillKill",
     "KillWatchdog", "KillInvalid"}

\* What kill_service owes a recorded pid whose process exists: the signal,
\* and a SIGCONT right after it unless the signal is SIGCONT or SIGKILL.
Owed(pid, sig) ==
    IF pid \notin live THEN <<>>
    ELSE IF sig \in {"SIGCONT", "SIGKILL"} THEN << <<pid, sig>> >>
    ELSE << <<pid, sig>>, <<pid, "SIGCONT">> >>

\* C16: for every kill operation, kill_service signals the main process and
\* then the control process, each when recorded, with the SIGCONT that
\* follows; and in the signals any handler sends, each signal other than
\* SIGCONT and SIGKILL is followed at once by a SIGCONT to the same pid.
C16_KillDiscipline ==
    /\ \A op \in KillOperations :
           kill_service(Cur, op).sent
               = Owed(main_pid, to_signal(op)) \o Owed(control_pid, to_signal(op))
    /\ ~panicked =>
           \A u1 \in Handled :
               \A i \in 1..Len(u1.sent) :
                   u1.sent[i][2] \notin {"SIGCONT", "SIGKILL"} =>
                       /\ i < Len(u1.sent)
                       /\ u1.sent[i + 1] = <<u1.sent[i][1], "SIGCONT">>

\* C16 witness: a stop signal has reached a live main and a live control
\* process of the unit.
C16_Witness ==
    /\ main_pid \in signalled
    /\ control_pid \in signalled

\* C17: a Reload received by a unit that has been started and is not in
\* Running spawns nothing and leaves the state as it is.
C17_ReloadOnlyFromRunning ==
    (~panicked /\ state \notin {"ServiceRuning", "ServiceStateMax"}) =>
        \A oks \in Outcomes :
            LET u1 == reload(WithOks(Cur, oks))
            IN  u1.state = state /\ u1.live = live

\* C18: a Stop in any state leaves forbid_restart true, and once it is true
\* no Stop, Reload or child exit, in whatever state it arrives, clears it.
C18_ForbidRestartLatched ==
    ~panicked =>
        /\ \A oks \in Outcomes : stop(WithOks(Cur, oks)).forbid_restart
        /\ forbid_restart =>
               /\ \A oks \in Outcomes : reload(WithOks(Cur, oks)).forbid_restart
               /\ \A pid \in live, ev \in ExitEvents, oks \in Outcomes :
                      child_dispatch_sigchld(WithOks(Cur, oks), pid, ev[1],
                                             ev[2]).forbid_restart

\* C18 witness: a Stop has arrived (the latch is set) and the unit is in an
\* already-stopping state with its stop-post command still running.
C18_Witness ==
    /\ forbid_restart
    /\ state = "ServiceStopPost"
    /\ control_pid \in live
    /\ ~panicked

\* ServiceUnit.restart as loaded from the unit file: the unit is configured
\* to restart always. No line of service.rs reads the field.
restart == "ServiceRestartAlways"

PolicyAdmits(res) ==
    \/ restart = "ServiceRestartAlways"
    \/ restart = "ServiceRestartOnFailure" /\ res # "ServiceSuccess"

\* C19: a unit that is Dead or Failed with forbid_restart false and a policy
\* that admits its result leaves the final state again (the restart timer
\* fires and the start path is re-entered), the children's exits being
\* delivered and no further intent being needed for it.
C19_AutoRestart ==
    [](( /\ state \in Final
         /\ ~panicked
         /\ ~forbid_restart
         /\ PolicyAdmits(result) ) => <>(state \notin Final))

\* One child exit reaped and dispatched, every spawn of the handler
\* succeeding; nothing more is dispatched once a handler has aborted.
Deliver(u, pid, ev) ==
    IF u.panicked THEN u
    ELSE child_dispatch_sigchld(WithOks(u, <<TRUE>>), pid, ev[1], ev[2])

\* C20: with the main and the control child both alive and watched, their
\* two exits delivered in either order leave the same state and the same
\* result, abort nothing, and leave a non-success result when either exit
\* classifies as non-success.
C20_DoubleExitConsistent ==
    (~panicked /\ main_pid \in watch /\ control_pid \in watch) =>
        \A em \in ExitEvents, ec \in ExitEvents :
            LET a == Deliver(Deliver(Cur, main_pid, em), control_pid, ec)
                b == Deliver(Deliver(Cur, control_pid, ec), main_pid, em)
            IN  /\ ~a.panicked /\ ~b.panicked
                /\ a.state = b.state
                /\ a.result = b.result
                /\ (\/ classify(em[1], em[2]) # "ServiceSuccess"
                    \/ classify(ec[1], ec[2]) # "ServiceSuccess")
                       => a.result # "ServiceSuccess"

\* ------------------------------------------------------------------------
\* The socket component's spawner (SocketSpawn::start_socket), one step per
\* call it makes; sock.procs are the children that exist, sock.watch the
\* child-watch table of the unit manager (pairs of pid and unit id).

SockUnit == "socket"

\* The initial state of every component specification: a unit just
\* constructed and every component idle.
InitIdle ==
    /\ UnitNew
    /\ OthersIdle

sock_child_watch_skipped(s) ==
    [s EXCEPT !.pc = "return"]

\* um.child_watch_pid(unit.id(), pid)
sock_child_watch_pid(s) ==
    [s EXCEPT !.pc = "return", !.watch = @ \cup {<<s.pid, SockUnit>>}]

\* start_socket is called; the three inputs are what the environment will
\* answer: whether the component has an owner, whether prepare_exec succeeds,
\* whether the spawn succeeds.
SockCall ==
    \E owner, prep, exec \in BOOLEAN :
        /\ sock.pc = "idle"
        /\ sock' = [sock EXCEPT !.pc = "owner", !.owner = owner,
                                !.prep = prep, !.exec = exec,
                                !.pid = NoPid, !.ret = "none",
                                !.procs0 = sock.procs, !.watch0 = sock.watch]
        /\ UNCHANGED but_sock

\* if let Some(unit) = self.comm.owner() ... else Err
SockOwner ==
    /\ sock.pc = "owner"
    /\ sock' = IF sock.owner THEN [sock EXCEPT !.pc = "prepare"]
               ELSE [sock EXCEPT !.pc = "done", !.ret = "Err"]
    /\ UNCHANGED but_sock

\* unit.prepare_exec()?
SockPrepare ==
    /\ sock.pc = "prepare"
    /\ sock' = IF sock.prep THEN [sock EXCEPT !.pc = "spawn"]
               ELSE [sock EXCEPT !.pc = "done", !.ret = "Err"]
    /\ UNCHANGED but_sock

\* um.exec_spawn(...): a new process with a pid no existing child has, or an
\* error (also when no pid is left).
SockSpawn ==
    /\ sock.pc = "spawn"
    /\ \/ /\ sock.exec
          /\ \E pid \in (1..MaxPid) \ sock.procs :
                sock' = [sock EXCEPT !.pc = "watch", !.pid = pid,
                                     !.procs = @ \cup {pid}]
       \/ /\ ~sock.exec \/ (1..MaxPid) \ sock.procs = {}
          /\ sock' = [sock EXCEPT !.pc = "done", !.ret = "Err"]
    /\ UNCHANGED but_sock

SockWatch ==
    /\ sock.pc = "watch"
    /\ sock' = sock_child_watch_pid(sock)
    /\ UNCHANGED but_sock

\* Ok(pid)
SockReturn ==
    /\ sock.pc = "return"
    /\ sock' = [sock EXCEPT !.pc = "done", !.ret = "Ok"]
    /\ UNCHANGED but_sock

\* The caller has taken the result.
SockTaken ==
    /\ sock.pc = "done"
    /\ sock' = [sock EXCEPT !.pc = "idle"]
    /\ UNCHANGED but_sock

\* A child exits and the manager reaps it, dropping its watch entry; SIGCHLD
\* is only dispatched from the event loop, never inside start_socket.
SockReap ==
    \E pid \in sock.procs :
        /\ sock.pc = "idle"
        /\ sock' = [sock EXCEPT !.procs = @ \ {pid},
                                !.watch = {w \in @ : w[1] # pid}]
        /\ UNCHANGED but_sock

NextSock ==
    \/ SockCall
    \/ SockOwner
    \/ SockPrepare
    \/ SockSpawn
    \/ SockWatch
    \/ SockReturn
    \/ SockTaken
    \/ SockReap

SpecSock == InitIdle /\ [][NextSock]_vars

\* C21: start_socket registers the child pid for the spawning unit before it
\* returns it, and a pid is registered iff Ok(pid) is returned: without an
\* owner, on a prepare_exec failure or on a spawn failure the result is an
\* error and the watch table is as it was (and on a prepare_exec failure
\* or a missing owner no process was spawned).
C21_WatchedIffOk ==
    /\ sock.pc = "return" => <<sock.pid, SockUnit>> \in sock.watch
    /\ sock.pc = "done" =>
        /\ sock.ret = "Ok" <=> (sock.owner /\ sock.prep /\ sock.pid # NoPid)
        /\ sock.ret = "Ok" =>
            /\ sock.pid \in sock.procs \ sock.procs0
            /\ sock.watch = sock.watch0 \cup {<<sock.pid, SockUnit>>}
            /\ sock.watch # sock.watch0
        /\ sock.ret = "Err" =>
            /\ sock.watch = sock.watch0
            /\ sock.pid = NoPid
        /\ ~sock.exec => sock.ret = "Err"
        /\ (~sock.owner \/ ~sock.prep) => sock.procs = sock.procs0

C21_Witness ==
    /\ sock.pc = "done"
    /\ sock.ret = "Ok"
    /\ sock.watch0 # {}

\* ------------------------------------------------------------------------
\* The command listener (Commands::dispatch) and the reliability journal's
\* last frame. A waiting connection is described by how its handling will
\* go: "ok", "stream_err" (accepting it fails) or "process_err" (processing
\* the request fails).

MaxIncoming == 3

clear_last_frame_skipped(c) ==
    [c EXCEPT !.pc = "return"]

\* self.reli.clear_last_frame()
clear_last_frame(c) ==
    [c EXCEPT !.pc = "return", !.frame = "none"]

\* A client connects; the journal and the dispatch in progress are untouched.
CmdsConnect ==
    /\ cmds.pc # "panicked"
    /\ Len(cmds.incoming) < MaxIncoming
    /\ \E k \in {"ok", "stream_err", "process_err"} :
        cmds' = [cmds EXCEPT !.incoming = Append(@, k)]
    /\ UNCHANGED but_cmds

\* self.reli.set_last_frame1(ReliLastFrame::CmdOp as u32)
CmdsDispatch ==
    /\ cmds.pc = "idle"
    /\ cmds' = [cmds EXCEPT !.pc = "next", !.frame = "CmdOp"]
    /\ UNCHANGED but_cmds

\* match self.fd.incoming().next(), and stream.unwrap() in the Some arm
CmdsNext ==
    /\ cmds.pc = "next"
    /\ cmds' = IF cmds.incoming = <<>> THEN [cmds EXCEPT !.pc = "clear"]
               ELSE IF Head(cmds.incoming) = "stream_err"
               THEN [cmds EXCEPT !.pc = "panicked", !.incoming = Tail(@)]
               ELSE [cmds EXCEPT !.pc = "process",
                                 !.cur = Head(cmds.incoming),
                                 !.incoming = Tail(@)]
    /\ UNCHANGED but_cmds

\* dispatch.process().unwrap()
CmdsProcess ==
    /\ cmds.pc = "process"
    /\ cmds' = IF cmds.cur = "ok"
               THEN [cmds EXCEPT !.pc = "clear", !.cur = "done"]
               ELSE [cmds EXCEPT !.pc = "panicked"]
    /\ UNCHANGED but_cmds

CmdsClear ==
    /\ cmds.pc = "clear"
    /\ cmds' = clear_last_frame(cmds)
    /\ UNCHANGED but_cmds

\* 0
CmdsReturn ==
    /\ cmds.pc = "return"
    /\ cmds' = [cmds EXCEPT !.pc = "idle", !.cur = "none"]
    /\ UNCHANGED but_cmds

NextCmds ==
    \/ CmdsConnect
    \/ CmdsDispatch
    \/ CmdsNext
    \/ CmdsProcess
    \/ CmdsClear
    \/ CmdsReturn

SpecCmds == InitIdle /\ [][NextCmds]_vars

\* C22: the last frame is recorded as CmdOp before the request is taken
\* and processed, it is clear whenever dispatch returns, and between
\* dispatches it is recorded exactly when the processing did not complete.
C22_FrameAroundDispatch ==
    /\ cmds.pc \in {"next", "process", "clear"} => cmds.frame = "CmdOp"
    /\ cmds.pc \in {"return", "idle"} => cmds.frame = "none"
    /\ cmds.pc = "panicked" => cmds.frame = "CmdOp"
    /\ cmds.cur = "done" => cmds.pc \in {"clear", "return"}

C22_Witness ==
    /\ cmds.pc = "return"
    /\ cmds.cur = "done"
    /\ cmds.incoming # <<>>

\* ------------------------------------------------------------------------
\* UnitManager::start_unit / stop_unit and the job manager behind them.
\* um.jobs is the job table (pairs of unit name and job kind), um.submitted
\* the jm.exec calls of the call in progress.

\* JobManager::exec in mode JobReplace: an accepted job replaces whatever
\* job the unit had.
jm_exec(m, conf, mode) ==
    [m EXCEPT !.submitted = Append(@, <<conf[1], conf[2], mode>>),
              !.jobs = IF m.accepts
                       THEN {j \in @ : j[1] # conf[1]} \cup {conf}
                       ELSE @]

um_exec_unchecked(m) ==
    [jm_exec(m, <<m.name, m.kind>>, "JobReplace")
        EXCEPT !.pc = "done", !.ret = "Ok"]

\* self.jm.exec(&JobConf::new(unit, kind), JobMode::JobReplace, ..)?; Ok(())
um_exec(m) ==
    [jm_exec(m, <<m.name, m.kind>>, "JobReplace")
        EXCEPT !.pc = "done", !.ret = IF m.accepts THEN "Ok" ELSE "Err"]

\* Entry of start_unit (JobStart) or stop_unit (JobStop): loads and accepts
\* are what load_unit and the job manager will answer.
UmCall ==
    \E name \in {"config.service", "other.service"},
       kind \in {"JobStart", "JobStop"}, loads, accepts \in BOOLEAN :
        /\ um.pc = "idle"
        /\ um' = [um EXCEPT !.pc = "load", !.name = name, !.kind = kind,
                            !.loads = loads, !.accepts = accepts,
                            !.ret = "none", !.submitted = <<>>,
                            !.jobs0 = um.jobs]
        /\ UNCHANGED but_um

\* if let Some(unit) = self.load.load_unit(name) ... else Err(MngErrInternel)
UmLoadUnit ==
    /\ um.pc = "load"
    /\ um' = IF um.loads THEN [um EXCEPT !.pc = "exec"]
             ELSE [um EXCEPT !.pc = "done", !.ret = "Err"]
    /\ UNCHANGED but_um

UmExec ==
    /\ um.pc = "exec"
    /\ um' = um_exec(um)
    /\ UNCHANGED but_um

\* The caller has taken the result.
UmTaken ==
    /\ um.pc = "done"
    /\ um' = [um EXCEPT !.pc = "idle"]
    /\ UNCHANGED but_um

\* The job manager has run a job to its end.
UmJobFinish ==
    \E j \in um.jobs :
        /\ um.pc = "idle"
        /\ um' = [um EXCEPT !.jobs = @ \ {j}]
        /\ UNCHANGED but_um

NextUm ==
    \/ UmCall
    \/ UmLoadUnit
    \/ UmExec
    \/ UmTaken
    \/ UmJobFinish

SpecUm == InitIdle /\ [][NextUm]_vars

\* C23: start_unit / stop_unit of a unit that cannot be loaded returns an
\* error having submitted nothing; of a loadable unit it has submitted
\* exactly one job, of kind start resp. stop, for that unit, in mode
\* replace, and returns an error exactly when the job manager refused.
C23_OneJobOrError ==
    um.pc = "done" =>
        /\ ~um.loads =>
            /\ um.ret = "Err"
            /\ um.submitted = <<>>
            /\ um.jobs = um.jobs0
        /\ um.loads =>
            /\ um.submitted = << <<um.name, um.kind, "JobReplace">> >>
            /\ um.ret = IF um.accepts THEN "Ok" ELSE "Err"
            /\ um.accepts =>
                /\ <<um.name, um.kind>> \in um.jobs
                /\ \A j \in um.jobs : j[1] = um.name => j[2] = um.kind
            /\ ~um.accepts => um.jobs = um.jobs0

C23_Witness ==
    /\ um.pc = "done"
    /\ um.loads
    /\ um.accepts
    /\ um.kind = "JobStop"
    /\ <<um.name, "JobStart">> \in um.jobs0

\* ------------------------------------------------------------------------
\* Event sources and the heap that orders them. A source is a record of its
\* token and its priority; tokens are handed out in insertion order, so the
\* token of a source also tells when it was inserted. events.pending is the
\* vector of the binary heap, events.last the token dispatched last.

MaxSources == 4

Priorities == {-1, 0, 1}

\* impl Ord for dyn Source: self.priority().cmp(&other.priority()).reverse()
cmp(a, b) ==
    IF a.priority < b.priority THEN "Greater"
    ELSE IF a.priority > b.priority THEN "Less"
    ELSE "Equal"

\* a <= b under that order
SourceLe(a, b) == cmp(a, b) # "Greater"

\* Zero-based access to the heap's vector.
At(d, i) == d[i + 1]

Put(d, i, x) == [d EXCEPT ![i + 1] = x]

RECURSIVE sift_up_from(_, _, _, _)

\* BinaryHeap::sift_up with the element at pos held out of the vector.
sift_up_from(d, elt, first, pos) ==
    IF pos > first
    THEN LET parent == (pos - 1) \div 2
         IN  IF SourceLe(elt, At(d, parent)) THEN Put(d, pos, elt)
             ELSE sift_up_from(Put(d, pos, At(d, parent)), elt, first, parent)
    ELSE Put(d, pos, elt)

sift_up(d, first, pos) == sift_up_from(d, At(d, pos), first, pos)

RECURSIVE sift_down_from(_, _, _, _)

\* BinaryHeap::sift_down_to_bottom: the hole goes down to a leaf along the
\* greater children (the right one on a tie), then the element sifts up.
sift_down_from(d, elt, first, pos) ==
    LET end == Len(d)
        child == 2 * pos + 1
    IN  IF end >= 2 /\ child <= end - 2
        THEN LET c == IF SourceLe(At(d, child), At(d, child + 1))
                      THEN child + 1 ELSE child
             IN  sift_down_from(Put(d, pos, At(d, c)), elt, first, c)
        ELSE IF child = end - 1
        THEN sift_up_from(Put(d, pos, At(d, child)), elt, first, child)
        ELSE sift_up_from(d, elt, first, pos)

sift_down_to_bottom(d, pos) == sift_down_from(d, At(d, pos), pos, pos)

\* BinaryHeap::push
heap_push(d, item) == sift_up(Append(d, item), 0, Len(d))

\* BinaryHeap::pop: the item returned and the vector left behind.
heap_pop(d) ==
    LET rest == SubSeq(d, 1, Len(d) - 1)
    IN  IF rest = <<>> THEN [item |-> d[Len(d)], data |-> rest]
        ELSE [item |-> rest[1],
              data |-> sift_down_to_bottom(Put(rest, 0, d[Len(d)]), 0)]

\* A source of the given priority is added to the loop.
EventsInsert ==
    /\ events.inserted < MaxSources
    /\ \E p \in Priorities :
        events' = [events EXCEPT
                      !.inserted = @ + 1,
                      !.pending = heap_push(@, [token |-> events.inserted + 1,
                                                priority |-> p])]
    /\ UNCHANGED but_events

\* The loop takes the next source off the heap and dispatches it.
EventsDispatch ==
    /\ events.pending # <<>>
    /\ events' = [events EXCEPT
                      !.pending = heap_pop(@).data,
                      !.last = heap_pop(events.pending).item.token]
    /\ UNCHANGED but_events

NextEvents ==
    \/ EventsInsert
    \/ EventsDispatch

SpecEvents == InitIdle /\ [][NextEvents]_vars

Pending == {events.pending[i] : i \in 1..Len(events.pending)}

\* The source the loop dispatches next.
NextSource == heap_pop(events.pending).item

LowestPriorityFirst ==
    events.pending # <<>> =>
        \A s \in Pending : NextSource.priority <= s.priority

\* ------------------------------------------------------------------------
\* The init supervisor (RunTime). rt.procs are init's live children,
\* rt.zombies the exited ones not yet reaped, rt.sigs the signals pending on
\* its signalfd (pairs of signal and sender/child pid); rt.crashed records
\* that the sysmaster init last created has exited abnormally.

InitStates == {"Reexec", "Run", "Unrecover"}

InitPids == 1..MaxPid

InitSignals == {"SIGCHLD", "RESTART", "UNRECOVER", "SWITCH_ROOT"}

CommTypes == {"PipON", "PipOFF", "PipTMOUT", "Other"}

\* libc::kill(pid, SIGKILL): a live child dies and its SIGCHLD is queued.
rt_kill(r, pid) ==
    IF pid \in r.procs
    THEN [r EXCEPT !.procs = @ \ {pid}, !.zombies = @ \cup {pid},
                   !.sigs = @ \cup {<<"SIGCHLD", pid>>},
                   !.crashed = @ \/ pid = r.sysmaster_pid]
    ELSE r

\* Signals::recycle_zombie: waitpid on the given child, or on any with 0.
recycle_zombie(r, pid) ==
    IF pid = 0 THEN [r EXCEPT !.zombies = {}]
    ELSE [r EXCEPT !.zombies = @ \ {pid}]

\* RunTime::create_sysmaster, in the parent: ok is whether the binary exists
\* and fork succeeds, pid the child's pid.
create_sysmaster(r, ok, pid) ==
    IF ok /\ pid # 0
    THEN [r EXCEPT !.sysmaster_pid = pid, !.procs = @ \cup {pid},
                   !.crashed = FALSE]
    ELSE r

\* Mutant of reexec_manager: the flag is left set.
reexec_manager_keeps_flag(r) ==
    [r EXCEPT !.last = "reexec_manager",
              !.sent = <<<<r.sysmaster_pid, "SIGRTMIN+7">>>>]

\* reexec_manager: clears the flag and asks the sysmaster to re-execute
\* itself with SIGRTMIN+7.
reexec_manager(r) ==
    [r EXCEPT !.need_reexec = FALSE, !.last = "reexec_manager",
              !.sent = <<<<r.sysmaster_pid, "SIGRTMIN+7">>>>]

\* Mutant of do_reexec: the state is left as it is.
do_reexec_keeps_state(r) ==
    [r EXCEPT !.need_reexec = TRUE]

do_reexec(r) ==
    [r EXCEPT !.need_reexec = TRUE, !.state = "Reexec"]

\* Mutant of do_recreate: the loop goes back to Reexec with the new manager.
do_recreate_to_reexec(r, ok, pid) ==
    [create_sysmaster(rt_kill(r, r.sysmaster_pid), ok, pid)
        EXCEPT !.state = "Reexec"]

do_recreate(r, ok, pid) ==
    create_sysmaster(
        rt_kill([r EXCEPT !.sent = Append(@, <<r.sysmaster_pid, "SIGKILL">>)],
                r.sysmaster_pid),
        ok, pid)

is_sysmaster(r, pid) == r.sysmaster_pid = pid

\* Mutant of do_recycle: the child is reaped whoever it is.
do_recycle_any(r, pid) == recycle_zombie(r, pid)

do_recycle(r, pid) ==
    IF ~is_sysmaster(r, pid) THEN recycle_zombie(r, pid) ELSE r

change_to_unrecover(r) ==
    recycle_zombie([r EXCEPT !.state = "Unrecover"], 0)

send_switch_root_signal(r) ==
    [r EXCEPT !.state = "Unrecover", !.switching = TRUE,
              !.sent = Append(@, <<r.sysmaster_pid, "SIG_SWITCH_ROOT">>)]

\* reexec_self: execv of init itself. When the execv fails the loop goes
\* on; otherwise the new image runs RunTime::new, which either creates a
\* sysmaster or fails and takes init down.
reexec_self(r, ok, pid) ==
    IF ~ok THEN r
    ELSE IF pid = 0 THEN [r EXCEPT !.down = TRUE, !.last = "reexec_self"]
    ELSE create_sysmaster([r EXCEPT !.state = "Reexec",
                                    !.need_reexec = FALSE,
                                    !.switching = FALSE,
                                    !.last = "reexec_self"], TRUE, pid)

reexec_signal_dispatch(r, sig) ==
    CASE sig[1] = "SIGCHLD" -> do_recycle(r, sig[2])
      [] sig[1] = "RESTART" -> do_reexec(r)
      [] sig[1] = "UNRECOVER" -> change_to_unrecover(r)
      [] OTHER -> r

run_signal_dispatch(r, sig) ==
    CASE sig[1] = "SIGCHLD" -> do_recycle(r, sig[2])
      [] sig[1] = "RESTART" -> do_reexec(r)
      [] sig[1] = "SWITCH_ROOT" -> send_switch_root_signal(r)
      [] OTHER -> r

unrecover_signal_dispatch(r, sig, ok, pid) ==
    CASE sig[1] = "SIGCHLD" ->
            IF is_sysmaster(r, sig[2]) /\ r.switching
            THEN reexec_self(r, ok, pid)
            ELSE recycle_zombie(r, 0)
      [] sig[1] = "RESTART" -> do_recreate(r, ok, pid)
      [] OTHER -> r

\* One signal read off the signalfd and dispatched by the loop of the
\* current state.
signal_dispatch(r, sig, ok, pid) ==
    LET r1 == [r EXCEPT !.sigs = @ \ {sig}, !.last = "signal", !.sent = <<>>]
    IN  CASE r.state = "Reexec" -> reexec_signal_dispatch(r1, sig)
          [] r.state = "Run" -> run_signal_dispatch(r1, sig)
          [] r.state = "Unrecover" ->
                unrecover_signal_dispatch(r1, sig, ok, pid)

reexec_comm_dispatch(r, t) ==
    CASE t = "PipON" -> [r EXCEPT !.state = "Run"]
      [] t = "PipTMOUT" -> [r EXCEPT !.need_reexec = TRUE]
      [] OTHER -> r

run_comm_dispatch(r, t) ==
    CASE t = "PipOFF" -> [r EXCEPT !.state = "Reexec"]
      [] t = "PipTMOUT" -> [r EXCEPT !.state = "Reexec",
                                     !.need_reexec = TRUE]
      [] OTHER -> r

unrecover_comm_dispatch(r, t) == r

\* One message read off the pipe and dispatched by the loop of the
\* current state.
comm_dispatch(r, t) ==
    LET r1 == [r EXCEPT !.last = "comm", !.sent = <<>>]
    IN  CASE r.state = "Reexec" -> reexec_comm_dispatch(r1, t)
          [] r.state = "Run" -> run_comm_dispatch(r1, t)
          [] r.state = "Unrecover" -> unrecover_comm_dispatch(r1, t)

\* The pids a new child can get: 0 stands for a failed fork.
RtNewPids(r) ==
    IF InitPids \ (r.procs \cup r.zombies) = {} THEN {0}
    ELSE InitPids \ (r.procs \cup r.zombies)

\* RunTime::reexec begins with reexec_manager when need_reexec is set.
RtReexecManager ==
    /\ rt.state = "Reexec"
    /\ rt.need_reexec
    /\ ~rt.down
    /\ rt' = reexec_manager(rt)
    /\ UNCHANGED but_rt

\* One turn of reexec / run / unrecover that finds the signalfd readable.
RtDispatch(sig) ==
    /\ rt.state = "Reexec" => ~rt.need_reexec
    /\ sig \in rt.sigs
    /\ \E ok \in BOOLEAN, pid \in RtNewPids(rt) :
        /\ ~rt.down
        /\ rt' = signal_dispatch(rt, sig, ok, pid)
        /\ UNCHANGED but_rt

RtSignal == \E sig \in rt.sigs : RtDispatch(sig)

\* One turn that finds the pipe from the sysmaster readable.
RtComm ==
    /\ rt.state = "Reexec" => ~rt.need_reexec
    /\ \E t \in CommTypes \ {"PipTMOUT"} :
        /\ ~rt.down
        /\ rt' = comm_dispatch(rt, t)
        /\ UNCHANGED but_rt

\* One turn that finds the heartbeat timer expired.
RtTimeout ==
    /\ rt.state = "Reexec" => ~rt.need_reexec
    /\ ~rt.down
    /\ rt' = comm_dispatch(rt, "PipTMOUT")
    /\ UNCHANGED but_rt

\* The sysmaster exits abnormally.
SysmasterExit ==
    /\ rt.sysmaster_pid \in rt.procs
    /\ ~rt.down
    /\ rt' = rt_kill([rt EXCEPT !.last = "env", !.sent = <<>>],
                      rt.sysmaster_pid)
    /\ UNCHANGED but_rt

\* A user or the sysmaster sends init one of the signals it listens to.
RtSignalSent ==
    \E s \in InitSignals \ {"SIGCHLD"} :
        /\ ~rt.down
        /\ rt' = [rt EXCEPT !.sigs = @ \cup {<<s, 0>>},
                            !.last = "env", !.sent = <<>>]
        /\ UNCHANGED but_rt

\* A process reparented to init exits.
OrphanExit ==
    \E pid \in InitPids \ (rt.procs \cup rt.zombies \cup {rt.sysmaster_pid}) :
        /\ ~rt.down
        /\ rt' = [rt EXCEPT !.zombies = @ \cup {pid},
                            !.sigs = @ \cup {<<"SIGCHLD", pid>>},
                            !.last = "env", !.sent = <<>>]
        /\ UNCHANGED but_rt

NextRt ==
    \/ RtReexecManager
    \/ RtSignal
    \/ RtComm
    \/ RtTimeout
    \/ SysmasterExit
    \/ RtSignalSent
    \/ OrphanExit

\* Init's own loop keeps turning: every pending signal is read, and the
\* heartbeat timer keeps expiring. Nothing obliges users to send signals.
SpecRt ==
    /\ InitIdle
    /\ [][NextRt]_vars
    /\ WF_vars(RtReexecManager)
    /\ \A sig \in InitSignals \X (0..MaxPid) : WF_vars(RtDispatch(sig))
    /\ WF_vars(RtTimeout)

\* C25: after the sysmaster has exited abnormally, init eventually creates
\* a new one and records its pid as sysmaster_pid, whatever state init is in.
C25_RecreatedAfterExit ==
    (rt.crashed /\ ~rt.down) ~> (~rt.crashed \/ rt.down)

\* ------------------------------------------------------------------------
\* Rules::resolve_user of devmaster and its users cache.

MaxLookups == 3

UserNames == {"root", "tss", "cjy"}

\* User::from_name: Ok(Some) for a name with a credential, Ok(None) for one
\* without, Err when the lookup itself fails.
from_name(r, username, fails) ==
    IF fails THEN "Err"
    ELSE IF username \in r.passwd THEN "Some" ELSE "None"

\* Rules::resolve_user
resolve_user(r, username, fails) ==
    IF username \in r.users
    THEN [r EXCEPT !.name = username, !.ret = "Ok"]
    ELSE [r EXCEPT !.name = username,
                   !.lookups = Append(@, username),
                   !.ret = IF from_name(r, username, fails) = "Some"
                           THEN "Ok" ELSE "Err"]

RulesResolveUser ==
    /\ Len(rules.lookups) < MaxLookups
    /\ \E username \in UserNames, fails \in BOOLEAN :
        rules' = resolve_user(rules, username, fails)
    /\ UNCHANGED but_rules

\* The administrator adds or removes an account.
RulesPasswdChange ==
    /\ \E username \in UserNames :
        rules' = [rules EXCEPT !.passwd =
                      IF username \in @ THEN @ \ {username}
                      ELSE @ \cup {username}]
    /\ UNCHANGED but_rules

NextRules ==
    \/ RulesResolveUser
    \/ RulesPasswdChange

SpecRules == InitIdle /\ [][NextRules]_vars

\* C26: after resolve_user(name) has succeeded the users cache contains
\* name, and after it has failed the cache does not contain it.
C26_ResolvedUserCached ==
    /\ rules.ret = "Ok" => rules.name \in rules.users
    /\ rules.ret = "Err" => rules.name \notin rules.users

\* ------------------------------------------------------------------------
\* RuleToken::parse_token of devmaster for the keys ACTION and DEVPATH. A
\* value is a sequence of characters; "[" opens a character class that
\* nothing in the alphabet can close.

MaxValue == 3

TokKeys == {"ACTION", "DEVPATH"}

TokAttrs == {"None", "whatever"}

TokOps == {"==", "!=", "=", "+=", "-=", ":=", "*=", "~"}

ValueChars == {"a", "|", "["}

RECURSIVE SeqsUpTo(_)

SeqsUpTo(n) ==
    IF n = 0 THEN {<<>>}
    ELSE SeqsUpTo(n - 1)
         \cup {Append(s, c) : s \in {t \in SeqsUpTo(n - 1) : Len(t) = n - 1},
                              c \in ValueChars}

TokValues == SeqsUpTo(MaxValue)

\* The token types in the order of their enum, which is the order in which
\* parse_token handles their keys.
TokenTypes ==
    <<"MatchAction", "MatchDevpath", "MatchSubsystem", "MatchTest",
      "MatchProgram", "MatchResult">>

TypeRank(type) == CHOOSE i \in 1..Len(TokenTypes) : TokenTypes[i] = type

\* op.parse::<OperatorType>()
OperatorType_from_str(op) ==
    CASE op = "==" -> "Match"
      [] op = "!=" -> "Nomatch"
      [] op = "=" -> "Assign"
      [] op = "+=" -> "Add"
      [] op = "-=" -> "Remove"
      [] op = ":=" -> "AssignFinal"
      [] OTHER -> "Err"

RECURSIVE split(_, _)

\* value.split('|'): the parts between the bars, empty ones included.
split(value, part) ==
    IF value = <<>> THEN <<part>>
    ELSE IF Head(value) = "|" THEN <<part>> \o split(Tail(value), <<>>)
    ELSE split(Tail(value), Append(part, Head(value)))

\* fnmatch_regex::glob_to_regex: an anchored regex, or an error for a
\* pattern with an unclosed character class.
glob_to_regex(s) ==
    IF \E i \in 1..Len(s) : s[i] = "[" THEN <<"Err">>
    ELSE <<"^">> \o s \o <<"$">>

\* RuleToken::new for the token types that carry no attribute substitution.
RuleToken_new(type, op, attr, value) ==
    LET parts == split(value, <<>>)
        to_regex ==
            /\ TypeRank(type) <= TypeRank("MatchResult")
            /\ \/ TypeRank(type) < TypeRank("MatchTest")
               \/ type = "MatchResult"
        match_type ==
            IF /\ type = "MatchSubsystem"
               /\ value \in {<<"b", "u", "s">>}
            THEN "Subsystem" ELSE "Invalid"
    IN  IF to_regex /\ \E i \in 1..Len(parts) : glob_to_regex(parts[i]) = <<"Err">>
        THEN [ok |-> FALSE]
        ELSE [ok |-> TRUE, type |-> type, op |-> op, attr |-> attr, value |-> value,
              match_type |-> match_type,
              value_regex |-> IF to_regex
                              THEN [i \in 1..Len(parts) |->
                                        glob_to_regex(parts[i])]
                              ELSE <<>>]

parse_token_any_operator(key, attr, op, value) ==
    LET o == OperatorType_from_str(op)
    IN  IF o = "Err" THEN [ok |-> FALSE]
        ELSE IF attr # "None" THEN [ok |-> FALSE]
        ELSE RuleToken_new(IF key = "ACTION" THEN "MatchAction"
                           ELSE "MatchDevpath", o, "None", value)

\* RuleToken::parse_token, arms "ACTION" and "DEVPATH"
parse_token(key, attr, op, value) ==
    LET o == OperatorType_from_str(op)
        op_is_match == o \in {"Match", "Nomatch"}
    IN  IF o = "Err" THEN [ok |-> FALSE]
        ELSE IF attr # "None" THEN [ok |-> FALSE]
        ELSE IF ~op_is_match THEN [ok |-> FALSE]
        ELSE RuleToken_new(IF key = "ACTION" THEN "MatchAction"
                           ELSE "MatchDevpath", o, "None", value)

TokParse ==
    /\ tok = TokIdle
    /\ \E key \in TokKeys, attr \in TokAttrs, op \in TokOps,
          value \in TokValues :
        tok' = [key |-> key, attr |-> attr, op |-> op, value |-> value,
                ret |-> parse_token(key, attr, op, value)]
    /\ UNCHANGED but_tok

\* The caller has taken the result.
TokTaken ==
    /\ tok # TokIdle
    /\ tok' = TokIdle
    /\ UNCHANGED but_tok

NextTok ==
    \/ TokParse
    \/ TokTaken

SpecTok == InitIdle /\ [][NextTok]_vars

\* Every part of the value between bars converts to a regex.
ValueConverts(value) ==
    \A i \in 1..Len(split(value, <<>>)) :
        glob_to_regex(split(value, <<>>)[i]) # <<"Err">>

\* C27 as stated: parse_token for key ACTION succeeds exactly when no
\* attribute is given and the operator is == or !=.
C27_ActionToken ==
    tok.key = "ACTION" =>
        (tok.ret.ok <=> (tok.attr = "None" /\ tok.op \in {"==", "!="}))

\* C27, amended: parse_token for key ACTION succeeds exactly when no
\* attribute is given, the operator is == or != and every part of the value
\* between bars converts to a regex; an attribute, an unrecognised operator
\* or a non-match operator each yield an error, and a token returned is of
\* type MatchAction with that operator and value.
C27_ActionTokenValidValue ==
    tok.key = "ACTION" =>
        /\ tok.ret.ok <=>
              /\ tok.attr = "None"
              /\ tok.op \in {"==", "!="}
              /\ ValueConverts(tok.value)
        /\ tok.ret.ok =>
              /\ tok.ret.type = "MatchAction"
              /\ tok.ret.op = (IF tok.op = "==" THEN "Match" ELSE "Nomatch")
              /\ tok.ret.attr = "None"
              /\ tok.ret.value = tok.value
              /\ Len(tok.ret.value_regex) = Len(split(tok.value, <<>>))

C27_Witness ==
    /\ tok.key = "ACTION"
    /\ tok.ret.ok
    /\ \E i \in 1..Len(tok.value) : tok.value[i] = "|"

\* ------------------------------------------------------------------------
\* The states a unit is in once it has entered the StopSigterm path.
SigtermPath ==
    {"ServiceStopSigterm", "ServiceStopSigkill", "ServiceStopPost",
     "ServiceFinalSigterm", "ServiceFinalSigkill", "ServiceDead",
     "ServiceFailed"}

\* The unit after the exit (code, status) of its main process has been
\* dispatched, the spawns of the handler answered by oks.
AfterMainExit(ev, oks) ==
    child_dispatch_sigchld(WithOks(Cur, oks), main_pid, ev[1], ev[2])

\* C28: in state Start, when the main process exits with success and the
\* main cursor has a next command, that command is spawned as main_pid and
\* the state stays Start; with success and the cursor exhausted the unit is
\* in post-start, or Running when the post-start stage is empty; with a
\* failure the unit is on the StopSigterm path with that failure latched.
C28_MainExitInStart ==
    (state = "ServiceStart" /\ ~panicked /\ main_pid \in live \cap watch) =>
        \A ev \in ExitEvents, oks \in Outcomes :
            LET res == classify(ev[1], ev[2])
                u1 == AfterMainExit(ev, oks)
            IN  (~u1.panicked /\ ~u1.failed) =>
                    IF res # "ServiceSuccess"
                    THEN /\ u1.state \in SigtermPath
                         /\ result = "ServiceSuccess" => u1.result = res
                    ELSE IF HasNext(main_command)
                    THEN /\ u1.state = "ServiceStart"
                         /\ u1.main_command = NextCmd(main_command)
                         /\ u1.main_pid \in u1.live \cap u1.watch
                    ELSE u1.state = IF exec_commands["ServiceStartPost"] > 0
                                    THEN "ServiceStartPost"
                                    ELSE "ServiceRuning"

\* The two parts of C28 the code does keep: the next start command, and the
\* StopSigterm path on a failure.
MainExitAdvancesOrStops ==
    (state = "ServiceStart" /\ ~panicked /\ main_pid \in live \cap watch) =>
        \A ev \in ExitEvents, oks \in Outcomes :
            LET res == classify(ev[1], ev[2])
                u1 == AfterMainExit(ev, oks)
            IN  (~u1.panicked /\ ~u1.failed) =>
                    IF res # "ServiceSuccess"
                    THEN /\ u1.state \in SigtermPath
                         /\ result = "ServiceSuccess" => u1.result = res
                    ELSE HasNext(main_command) =>
                         /\ u1.state = "ServiceStart"
                         /\ u1.main_command = NextCmd(main_command)
                         /\ u1.main_pid \in u1.live \cap u1.watch

\* A post-stop command of the unit is running.
PostStopRunning ==
    /\ control_command.stage = "ServiceStopPost"
    /\ control_pid \in live

\* The children that were sent the stop signal and have not exited, the
\* running post-stop command itself left out.
SignalledAlive ==
    signalled \ (IF PostStopRunning THEN {control_pid} ELSE {})

\* C29: while a process that was sent the stop signal is still alive, no
\* post-stop command is running and the unit is neither Dead nor Failed.
C29_PostStopAfterBothDead ==
    (~panicked /\ SignalledAlive # {}) =>
        /\ ~PostStopRunning
        /\ state \notin Final

\* The cursor cur of a stage process after the exit ev of that process pid
\* has been dispatched: it stays within one step of the list order (or is
\* back on the first command, for a new pass of the stage), it moves to the
\* next command on exit code 0, and it does not move to the next command
\* on a non-zero exit code. next is the cursor afterwards.
StageOrder(cur, next, ev) ==
    /\ next.stage = cur.stage => next.idx \in {1, cur.idx, cur.idx + 1}
    /\ (ev[1] = 0 /\ HasNext(cur)) => next = NextCmd(cur)
    /\ (ev[1] # 0 /\ HasNext(cur)) => next # NextCmd(cur)

\* C30: the commands of a stage run in list order, the next one spawned
\* only by the handling of the previous one's exit, and a non-zero exit
\* code aborts the rest of the stage.
C30_InOrderAbortOnFailure ==
    ~panicked =>
        \A ev \in ExitEvents, oks \in Outcomes :
            /\ (control_pid \in live \cap watch /\ control_command # NoCmd) =>
                LET u1 == child_dispatch_sigchld(WithOks(Cur, oks),
                                                 control_pid, ev[1], ev[2])
                IN  ~u1.panicked =>
                        StageOrder(control_command, u1.control_command, ev)
            /\ (main_pid \in live \cap watch /\ main_command # NoCmd) =>
                LET u1 == child_dispatch_sigchld(WithOks(Cur, oks),
                                                 main_pid, ev[1], ev[2])
                IN  ~u1.panicked =>
                        StageOrder(main_command, u1.main_command, ev)

\* The part of C30 the code keeps: list order, and the next command on a
\* successful exit.
InOrderOnSuccess ==
    ~panicked =>
        \A ev \in ExitEvents, oks \in Outcomes :
            /\ (control_pid \in live \cap watch /\ control_command # NoCmd) =>
                LET u1 == child_dispatch_sigchld(WithOks(Cur, oks),
                                                 control_pid, ev[1], ev[2])
                    c1 == u1.control_command
                IN  ~u1.panicked =>
                        /\ c1.stage = control_command.stage =>
                              c1.idx \in {1, control_command.idx,
                                          control_command.idx + 1}
                        /\ (ev[1] = 0 /\ HasNext(control_command)) =>
                              c1 = NextCmd(control_command)
            /\ (main_pid \in live \cap watch /\ main_command # NoCmd) =>
                LET u1 == child_dispatch_sigchld(WithOks(Cur, oks),
                                                 main_pid, ev[1], ev[2])
                    c1 == u1.main_command
                IN  ~u1.panicked =>
                        /\ c1.stage = main_command.stage =>
                              c1.idx \in {1, main_command.idx,
                                          main_command.idx + 1}
                        /\ (ev[1] = 0 /\ HasNext(main_command)) =>
                              c1 = NextCmd(main_command)

\* The unit after a Stop intent, the spawns of the handler answered by oks.
AfterStop(oks) == stop(WithOks(Cur, oks))

\* A command of the stop stage is running as the control process.
StopCommandRunning ==
    /\ control_command.stage = "ServiceStop"
    /\ control_pid \in live

\* C31: a Stop intent received in Running (or Exited) spawns the first
\* command of the stop stage as control_pid and leaves the unit in Stop
\* when the stop stage is not empty, and otherwise takes the StopSigterm
\* path; a stop command runs only while the unit is in Stop.
C31_StopFromRunning ==
    ~panicked =>
        /\ state \in {"ServiceRuning", "ServiceExited"} =>
            \A oks \in Outcomes :
                LET u1 == AfterStop(oks)
                IN  IF exec_commands["ServiceStop"] > 0
                    THEN /\ u1.state = "ServiceStop"
                         /\ u1.control_command = Cmd("ServiceStop", 1)
                         /\ u1.control_pid \in (u1.live \cap u1.watch) \ live
                    ELSE u1.state \in SigtermPath
        /\ StopCommandRunning => state = "ServiceStop"

\* The part of C31 that does not depend on the spawn: the state after the
\* Stop, the cursor, and where a stop command runs.
StopFromRunningState ==
    ~panicked =>
        /\ state \in {"ServiceRuning", "ServiceExited"} =>
            \A oks \in Outcomes :
                LET u1 == AfterStop(oks)
                IN  IF exec_commands["ServiceStop"] > 0
                    THEN /\ u1.state = "ServiceStop"
                         /\ u1.control_command = Cmd("ServiceStop", 1)
                         /\ ~u1.failed =>
                              u1.control_pid \in (u1.live \cap u1.watch) \ live
                    ELSE u1.state \in SigtermPath
        /\ StopCommandRunning => state = "ServiceStop"

\* The last post-stop command is running as the control process of a unit
\* in StopPost.
LastPostStopRunning ==
    /\ state = "ServiceStopPost"
    /\ control_command.stage = "ServiceStopPost"
    /\ ~HasNext(control_command)
    /\ control_pid \in live \cap watch

\* The unit after the exit ev of its control process has been dispatched.
AfterControlExit(ev, oks) ==
    child_dispatch_sigchld(WithOks(Cur, oks), control_pid, ev[1], ev[2])

\* The exit of the last post-stop command takes the unit through the final
\* signals (a main process still alive is sent SIGKILL) into Dead when the
\* result is success and into Failed otherwise.
PostStopExitEnds ==
    (~panicked /\ LastPostStopRunning) =>
        \A ev \in ExitEvents, oks \in Outcomes :
            LET u1 == AfterControlExit(ev, oks)
            IN  /\ u1.state = IF u1.result = "ServiceSuccess"
                              THEN "ServiceDead" ELSE "ServiceFailed"
                /\ main_pid \in live =>
                      \E i \in DOMAIN u1.sent : u1.sent[i] = <<main_pid, "SIGKILL">>

\* u1 is in StopPost with the first post-stop command running as its
\* control process, a process that is none of those in before.
PostStopSpawned(u1, before) ==
    /\ u1.control_command = Cmd("ServiceStopPost", 1)
    /\ u1.control_pid \in (u1.live \cap u1.watch) \ before

\* Every handler that takes a unit into StopPost has spawned the first
\* post-stop command as control_pid, spawn failures included or not.
EntersPostStop(with_failures) ==
    (~panicked /\ state # "ServiceStopPost") =>
        \A oks \in Outcomes :
            /\ LET u1 == stop(WithOks(Cur, oks))
               IN  (CanStop /\ u1.state = "ServiceStopPost"
                    /\ (with_failures \/ ~u1.failed)) =>
                       PostStopSpawned(u1, live)
            /\ \A pid \in live, ev \in ExitEvents :
                 LET u1 == child_dispatch_sigchld(WithOks(Cur, oks), pid,
                                                  ev[1], ev[2])
                 IN  (u1.state = "ServiceStopPost"
                      /\ (with_failures \/ ~u1.failed)) =>
                         PostStopSpawned(u1, live \ {pid})

\* C32: a handler that takes the unit into StopPost has spawned the first
\* post-stop command as control_pid; and the exit of the last post-stop
\* command takes the unit through the final signals into Dead when the
\* result is success and into Failed otherwise.
C32_PostStop ==
    /\ EntersPostStop(TRUE)
    /\ PostStopExitEnds

\* The parts of C32 the code keeps: the first post-stop command when its
\* spawn succeeds, and the end of the stage.
PostStopWhenSpawned ==
    /\ EntersPostStop(FALSE)
    /\ PostStopExitEnds

\* ------------------------------------------------------------------------
\* UnitStatesSub::insert_states: the delivery of one unit state change to
\* the unit manager.

\* The units that may be related to the source by UnitAtomTriggeredBy.
Dependents == {"a.socket", "b.timer", "c.path"}

\* self.um.jm.try_finish(&unitx, ..).unwrap(); an Err aborts the manager.
try_finish_then(s) ==
    [s EXCEPT !.pc = IF s.ok THEN "trigger" ELSE "panicked",
              !.trace = Append(@, "try_finish")]

\* A state change reaches notify as TableInsert(name, state). present: the
\* source is in the unit database; deps: the units triggered by it; ok: what
\* try_finish will return.
SubsInsertStates ==
    \E present, ok \in BOOLEAN, deps \in SUBSET Dependents :
        /\ subs.pc = "idle"
        /\ subs' = [pc |-> "get", present |-> present, ok |-> ok,
                    deps |-> IF present THEN deps ELSE {},
                    todo |-> IF present THEN deps ELSE {}, trace |-> <<>>]
        /\ UNCHANGED but_subs

\* if let Some(u) = self.um.db.units_get(source) ... else return
SubsUnitsGet ==
    /\ subs.pc = "get"
    /\ subs' = [subs EXCEPT !.pc = IF subs.present THEN "finish" ELSE "done"]
    /\ UNCHANGED but_subs

SubsTryFinish ==
    /\ subs.pc = "finish"
    /\ subs' = try_finish_then(subs)
    /\ UNCHANGED but_subs

\* One turn of `for other in dep_gets_atom(&unitx, UnitAtomTriggeredBy)`:
\* other.trigger(&unitx). The order is that of the returned Vec.
SubsTrigger ==
    \E other \in subs.todo :
        /\ subs.pc = "trigger"
        /\ subs' = [subs EXCEPT !.todo = @ \ {other},
                                !.trace = Append(@, other)]
        /\ UNCHANGED but_subs

\* The loop is over and insert_states returns.
SubsReturn ==
    /\ subs.pc = "trigger"
    /\ subs.todo = {}
    /\ subs' = [subs EXCEPT !.pc = "done"]
    /\ UNCHANGED but_subs

\* The data manager goes on to the next table operation.
SubsTaken ==
    /\ subs.pc = "done"
    /\ subs' = [subs EXCEPT !.pc = "idle"]
    /\ UNCHANGED but_subs

NextSubs ==
    \/ SubsInsertStates
    \/ SubsUnitsGet
    \/ SubsTryFinish
    \/ SubsTrigger
    \/ SubsReturn
    \/ SubsTaken

SpecSubs == InitIdle /\ [][NextSubs]_vars

\* The positions of a call in the trace of the delivery.
CallsOf(name) == {i \in DOMAIN subs.trace : subs.trace[i] = name}

\* C33: when the job manager evaluates the state change of a unit of the
\* database, every unit triggered by it has been notified before; when the
\* delivery is over each of them was triggered exactly once and the job
\* manager evaluated once; and for a unit absent from the database nothing
\* is triggered and no job is evaluated.
C33_TriggerBeforeTryFinish ==
    /\ \A i \in CallsOf("try_finish"), d \in subs.deps :
          \E j \in CallsOf(d) : j < i
    /\ subs.pc = "done" =>
          IF subs.present
          THEN /\ Cardinality(CallsOf("try_finish")) = 1
               /\ \A d \in Dependents :
                     Cardinality(CallsOf(d)) = IF d \in subs.deps THEN 1 ELSE 0
          ELSE subs.trace = <<>>

\* What the code does: the job manager evaluates first, the dependents are
\* triggered afterwards, each once; nothing happens for an absent unit.
TryFinishBeforeTrigger ==
    /\ \A i \in CallsOf("try_finish"), d \in Dependents :
          \A j \in CallsOf(d) : i < j
    /\ subs.pc = "done" =>
          IF subs.present
          THEN /\ Cardinality(CallsOf("try_finish")) = 1
               /\ \A d \in Dependents :
                     Cardinality(CallsOf(d)) = IF d \in subs.deps THEN 1 ELSE 0
          ELSE subs.trace = <<>>

\* ------------------------------------------------------------------------
\* ServiceUnit::start_watchdog / stop_watchdog and the watchdog timer.

\* let watchdog_usec = if self.watchdog_override_enable { .. } else { .. }
watchdog_usec(w) ==
    IF w.watchdog_override_enable
    THEN w.watchdog_override_usec
    ELSE w.watchdog_original_usec

\* watchdog::event_source_set_enabled(b)
event_source_set_enabled(w, b) == [w EXCEPT !.enabled = b]

\* watchdog::register_timer()
register_timer(w) == [w EXCEPT !.registered = TRUE]

\* ServiceUnit::stop_watchdog
stop_watchdog(w) == event_source_set_enabled(w, FALSE)

\* start_watchdog is called on a unit whose watchdog settings are the ones
\* chosen here (the unit file and a runtime override).
WdStart ==
    \E en \in BOOLEAN, ov, orig \in 0..U64Max :
        /\ wd.pc = "idle"
        /\ wd' = [wd EXCEPT !.pc = "check",
                            !.watchdog_override_enable = en,
                            !.watchdog_override_usec = ov,
                            !.watchdog_original_usec = orig]
        /\ UNCHANGED but_wd

\* if watchdog_usec == 0 || watchdog_usec == u64::MAX { self.stop_watchdog() }
WdCheck ==
    /\ wd.pc = "check"
    /\ wd' = [(IF watchdog_usec(wd) = 0 \/ watchdog_usec(wd) = U64Max
               THEN stop_watchdog(wd) ELSE wd)
                 EXCEPT !.pc = "register"]
    /\ UNCHANGED but_wd

WdRegister ==
    /\ wd.pc = "register"
    /\ wd' = [register_timer(wd) EXCEPT !.pc = "enable"]
    /\ UNCHANGED but_wd

\* watchdog::event_source_set_enabled(true), the last statement.
WdEnable ==
    /\ wd.pc = "enable"
    /\ wd' = [event_source_set_enabled(wd, TRUE) EXCEPT !.pc = "started"]
    /\ UNCHANGED but_wd

\* start_watchdog has returned and the unit goes on.
WdTaken ==
    /\ wd.pc = "started"
    /\ wd' = [wd EXCEPT !.pc = "idle"]
    /\ UNCHANGED but_wd

\* stop_watchdog called by itself.
WdStop ==
    /\ wd.pc = "idle"
    /\ wd' = stop_watchdog(wd)
    /\ UNCHANGED but_wd

NextWd ==
    \/ WdStart
    \/ WdCheck
    \/ WdRegister
    \/ WdEnable
    \/ WdTaken
    \/ WdStop

SpecWd == InitIdle /\ [][NextWd]_vars

\* C34: after start_watchdog on a unit whose effective watchdog timeout is
\* 0 or unset, the watchdog timer event source is disabled.
C34_WatchdogOffWithoutTimeout ==
    (wd.pc = "started" /\ watchdog_usec(wd) \in {0, U64Max}) => ~wd.enabled

\* What the code does: start_watchdog leaves the timer registered and its
\* event source enabled whatever the timeout.
StartWatchdogEnables ==
    wd.pc = "started" => (wd.enabled /\ wd.registered)

\* The SIGRTMIN+7 signals among those the latest step sent.
ReexecSignals(r) ==
    {i \in DOMAIN r.sent : r.sent[i][2] = "SIGRTMIN+7"}

\* C35: when need_reexec is set, the next turn of init's loop is
\* reexec_manager: it clears the flag and sends SIGRTMIN+7 to the recorded
\* sysmaster pid, once, before any event is dispatched; and a step taken
\* with the flag not set sends no SIGRTMIN+7.
C35_ReexecSignalOnce ==
    [][/\ (rt.need_reexec /\ rt'.last # "env") =>
            /\ rt'.last = "reexec_manager"
            /\ ~rt'.need_reexec
            /\ rt'.sent = <<<<rt.sysmaster_pid, "SIGRTMIN+7">>>>
       /\ ~rt.need_reexec => ReexecSignals(rt') = {}]_vars

\* C35 witness: reexec_manager has just cleared the flag and sent the
\* signal.
C35_Witness ==
    /\ rt.last = "reexec_manager"
    /\ ~rt.need_reexec
    /\ rt.state = "Reexec"
    /\ Cardinality(ReexecSignals(rt)) = 1

\* C36: after every handler of init, need_reexec implies state Reexec.
C36_NeedReexecInReexec ==
    rt.need_reexec => rt.state = "Reexec"

\* C36 witness: a handler has just set need_reexec while signals are still
\* pending.
C36_Witness ==
    /\ rt.need_reexec
    /\ rt.last \in {"signal", "comm"}
    /\ rt.sigs # {}

\* C37: no step of init in state Unrecover leaves Unrecover, except the
\* execv of init itself.
C37_UnrecoverAbsorbing ==
    [][(rt.state = "Unrecover" /\ rt'.state # "Unrecover") =>
            rt'.last = "reexec_self"]_vars

\* C37 witness: in Unrecover the restart signal has been handled (the
\* sysmaster was killed and forked again) and init is still in Unrecover.
C37_Witness ==
    /\ rt.state = "Unrecover"
    /\ rt.last = "signal"
    /\ \E i \in DOMAIN rt.sent : rt.sent[i][2] = "SIGKILL"

\* The init runtime after the pending signal sig has been dispatched.
AfterSignal(sig, ok, pid) == signal_dispatch(rt, sig, ok, pid)

\* C38: switching implies state Unrecover; init re-executes itself only
\* in Unrecover with switching set and on a SIGCHLD from the sysmaster pid;
\* and in Reexec and Run the SIGCHLD of the sysmaster pid leaves its zombie
\* alone while the SIGCHLD of any other pid has that child reaped.
C38_SwitchingAndRecycle ==
    /\ rt.switching => rt.state = "Unrecover"
    /\ ~rt.down =>
        \A sig \in rt.sigs, ok \in BOOLEAN, pid \in RtNewPids(rt) :
            LET r1 == AfterSignal(sig, ok, pid)
            IN  /\ r1.last = "reexec_self" =>
                      /\ rt.state = "Unrecover"
                      /\ rt.switching
                      /\ sig = <<"SIGCHLD", rt.sysmaster_pid>>
                /\ (rt.state \in {"Reexec", "Run"} /\ sig[1] = "SIGCHLD") =>
                      IF sig[2] = rt.sysmaster_pid
                      THEN r1.zombies = rt.zombies
                      ELSE sig[2] \notin r1.zombies

\* C38 witness: init is switching root, the sysmaster has exited and its
\* SIGCHLD is pending.
C38_Witness ==
    /\ rt.switching
    /\ <<"SIGCHLD", rt.sysmaster_pid>> \in rt.sigs
    /\ rt.sysmaster_pid \in rt.zombies

\* The states that name a signal being sent.
SignalStates ==
    {"ServiceStopWatchdog", "ServiceStopSigterm", "ServiceStopSigkill",
     "ServiceFinalWatchdog", "ServiceFinalSigterm", "ServiceFinalSigkill"}

\* C39: the state stored in the unit is the initial value or one of
\* Condition, StartPre, Start, StartPost, Running, Reload, Stop, StopPost,
\* Dead, Failed; never one of the six signal states.
C39_SignalStatesNotStored ==
    /\ state \in {"ServiceStateMax", "ServiceCondition", "ServiceStartPre",
                  "ServiceStart", "ServiceStartPost", "ServiceRuning",
                  "ServiceReload", "ServiceStop", "ServiceStopPost",
                  "ServiceDead", "ServiceFailed"}
    /\ state \notin SignalStates

\* C39 witness: a Stop has taken a unit whose main process is still alive
\* through StopSigterm, FinalSigterm and FinalSigkill into Dead in one step.
C39_Witness ==
    /\ state = "ServiceDead"
    /\ forbid_restart
    /\ main_pid \in live
    /\ exec_commands["ServiceStopPost"] = 0

\* C40: once the result is non-success every later step leaves it
\* non-success, and leaves the unit neither Running nor Dead.
C40_FailedStaysFailed ==
    [][result # "ServiceSuccess" =>
          /\ result' # "ServiceSuccess"
          /\ ~panicked' => state' \notin {"ServiceRuning", "ServiceDead"}]_vars

\* C40 witness: a unit that has failed was started again and its start
\* command is running, the failure still recorded.
C40_Witness ==
    /\ result # "ServiceSuccess"
    /\ state = "ServiceStart"
    /\ main_pid \in live
    /\ ~panicked

TypeOK ==
    /\ state \in States
    /\ result \in Results
    /\ main_pid \in 0..MaxPid
    /\ control_pid \in 0..MaxPid
    /\ watch \subseteq live
    /\ live \subseteq 1..MaxPid
    /\ signalled \subseteq live
    /\ main_pid = NoPid \/ main_pid # control_pid
=============================================================================
